---------------------------- MODULE Spec2Model ----------------------------
(***************************************************************************)
(* A model of the DAG-CBOR codec of sp_ipld (src/sp_ipld/src/lib.rs): the  *)
(* ByteCursor, the fixed-width primitives, the framing writes, the         *)
(* encoder, the decoder and the skip / references traversals.              *)
(*                                                                         *)
(* Numbers wider than TLC's integers (u32, u64, i64, i128, the cursor      *)
(* position) are little-endian sequences of 16-bit limbs; u8 and u16 are   *)
(* plain naturals.  Buffers are sequences of bytes; the byte at cursor     *)
(* position p is inner[p + 1].                                             *)
(***************************************************************************)
EXTENDS Integers, Sequences, FiniteSets, TLC

VARIABLES cur, op, arg, res, pre, src

vars == <<cur, op, arg, res, pre, src>>

---------------------------------------------------------------------------
(* Bounds of the model *)

\* longest text / byte string drawn over the small alphabets
MaxStr == 2
\* most items in a drawn list, most entries in a drawn map
MaxItems == 2
\* longest digest of a drawn content identifier
MaxDigest == 2
\* longest raw byte buffer drawn over the alphabet of initial bytes
MaxRaw == 2
\* a cursor is moved by at most MaxSeeks seeks
MaxSeeks == 2
\* destinations of read and read_exact hold up to MaxRead bytes
MaxRead == 3
\* the operations of a family are numbered 0..MaxFamilyOp
MaxFamilyOp == 1

---------------------------------------------------------------------------
(* Limb arithmetic: fixed-width machine integers *)

\* the value x under the name the expression F gives it
With(x, F(_)) == F(x)

Base == 256 * 256

Byte == 0..255

Zeros(n) == [i \in 1..n |-> 0]

Ones(n) == [i \in 1..n |-> Base - 1]

\* a natural below 2^31 as an n-limb unsigned integer (n >= 2)
FromNat(x, n) == [i \in 1..n |-> IF i = 1 THEN x % Base ELSE IF i = 2 THEN x \div Base ELSE 0]

U64(x) == FromNat(x, 4)

\* TRUE when only the lowest limb is used: the value is below 2^16
IsSmall(a) == \A i \in 2..Len(a) : a[i] = 0

\* the value of a small integer
ToNat(a) == a[1]

LimbNot(a) == [i \in 1..Len(a) |-> Base - 1 - a[i]]

\* a + b + cin on equal widths: the wrapped sum and the carry out
LimbAdd(a, b, cin) ==
  LET c[i \in 1..(Len(a) + 1)] == IF i = 1 THEN cin ELSE (a[i-1] + b[i-1] + c[i-1]) \div Base
  IN [val |-> [i \in 1..Len(a) |-> (a[i] + b[i] + c[i]) % Base], carry |-> c[Len(a) + 1]]

\* a - b on equal widths: the wrapped difference and the borrow out
LimbSub(a, b) ==
  With(LimbAdd(a, LimbNot(b), 1), LAMBDA r :
     [val |-> r.val, borrow |-> 1 - r.carry])

\* unsigned comparison
ULt(a, b) == LimbSub(a, b).borrow = 1

ULe(a, b) == ~ULt(b, a)

\* two's complement
IsNeg(a) == a[Len(a)] >= Base \div 2

SLt(a, b) == IF IsNeg(a) # IsNeg(b) THEN IsNeg(a) ELSE ULt(a, b)

WrappingNeg(a) == LimbAdd(LimbNot(a), Zeros(Len(a)), 1).val

WrappingAdd(a, b) == LimbAdd(a, b, 0).val

WrappingSub(a, b) == LimbSub(a, b).val

\* widening conversions (T::from, `as` to a wider type)
ZeroExtend(a, n) == [i \in 1..n |-> IF i <= Len(a) THEN a[i] ELSE 0]

SignExtend(a, n) == [i \in 1..n |-> IF i <= Len(a) THEN a[i] ELSE IF IsNeg(a) THEN Base - 1 ELSE 0]

\* narrowing `as` conversion: keeps the low limbs
Truncate(a, n) == [i \in 1..n |-> a[i]]

\* big-endian bytes of a limb integer, and back (byteorder::BigEndian)
BigEndianWrite(a) ==
  [i \in 1..(2 * Len(a)) |->
     With(a[Len(a) - ((i - 1) \div 2)], LAMBDA limb :
        IF i % 2 = 1 THEN limb \div 256 ELSE limb % 256)]

BigEndianRead(bytes) ==
  [i \in 1..(Len(bytes) \div 2) |->
     With(Len(bytes) - 2 * i + 1, LAMBDA k :
        bytes[k] * 256 + bytes[k + 1])]

\* a u16 held as a natural
BigEndianWriteU16(x) == <<x \div 256, x % 256>>

BigEndianReadU16(bytes) == bytes[1] * 256 + bytes[2]

U64Max == Ones(4)

\* u64::max_value() as i128
U64MaxAsI128 == ZeroExtend(U64Max, 8)

\* isize::MAX as usize
IsizeMax == [i \in 1..4 |-> IF i = 4 THEN (Base \div 2) - 1 ELSE Base - 1]

---------------------------------------------------------------------------
(* The codec token *)

\* u64::from(DagCborCodec)
DagCborCodecInto == U64(113)

\* DagCborCodec::try_from(n): Ok(Self) whatever n is
DagCborCodecTryFrom(n) == [st |-> "ok"]

---------------------------------------------------------------------------
(* ByteCursor *)

ByteCursorNew(inner) == [inner |-> inner, pos |-> U64(0)]

set_position(c, p) == [c EXCEPT !.pos = p]

\* the index in inner where the unread part starts: min(pos, len)
FillAmt(c) == IF ULe(c.pos, U64(Len(c.inner))) THEN ToNat(c.pos) ELSE Len(c.inner)

fill_buf(c) == SubSeq(c.inner, FillAmt(c) + 1, Len(c.inner))

\* a read that leaves the position where it was
ReadKeepsPosition(c, n) ==
  With(fill_buf(c), LAMBDA from :
  With(IF n <= Len(from) THEN n ELSE Len(from), LAMBDA amt :
     [amt |-> amt, buf |-> SubSeq(from, 1, amt), cur |-> c]))

\* read into a destination of n bytes: the count, the bytes, the cursor
read(c, n) ==
  With(fill_buf(c), LAMBDA from :
  With(IF n <= Len(from) THEN n ELSE Len(from), LAMBDA amt :
     [amt |-> amt,
      buf |-> SubSeq(from, 1, amt),
      cur |-> [c EXCEPT !.pos = WrappingAdd(c.pos, U64(amt))]]))

\* a read_exact that advances the position also when it fails
ReadExactAdvancesOnFailure(c, n) ==
  With(fill_buf(c), LAMBDA from :
     IF n > Len(from)
     THEN [st |-> "err", cur |-> [c EXCEPT !.pos = WrappingAdd(c.pos, U64(n))], buf |-> <<>>]
     ELSE [st |-> "ok",
           cur |-> [c EXCEPT !.pos = WrappingAdd(c.pos, U64(n))],
           buf |-> SubSeq(from, 1, n)])

read_exact(c, n) ==
  With(fill_buf(c), LAMBDA from :
     IF n > Len(from)
     THEN [st |-> "err", cur |-> c, buf |-> <<>>]
     ELSE [st |-> "ok",
           cur |-> [c EXCEPT !.pos = WrappingAdd(c.pos, U64(n))],
           buf |-> SubSeq(from, 1, n)])

\* a seek that adds every offset as an unsigned number
SeekAddsUnsigned(c, style) ==
  IF style.k = "Start"
  THEN [st |-> "ok", cur |-> [c EXCEPT !.pos = style.n]]
  ELSE With(IF style.k = "End" THEN U64(Len(c.inner)) ELSE c.pos, LAMBDA base_pos :
       With(LimbAdd(base_pos, style.n, 0), LAMBDA sum :
          IF sum.carry = 0
          THEN [st |-> "ok", cur |-> [c EXCEPT !.pos = sum.val]]
          ELSE [st |-> "err", cur |-> c]))

\* style is [k |-> "Start", n |-> u64] or [k |-> "End" / "Current", n |-> i64]
seek(c, style) ==
  IF style.k = "Start"
  THEN [st |-> "ok", cur |-> [c EXCEPT !.pos = style.n]]
  ELSE With(IF style.k = "End" THEN U64(Len(c.inner)) ELSE c.pos, LAMBDA base_pos :
       With(style.n, LAMBDA offset :
       With(LimbAdd(base_pos, offset, 0), LAMBDA sum :
       With(LimbSub(base_pos, WrappingNeg(offset)), LAMBDA dif :
       With(IF ~IsNeg(offset) THEN sum.carry = 0 ELSE dif.borrow = 0, LAMBDA some :
       With(IF ~IsNeg(offset) THEN sum.val ELSE dif.val, LAMBDA n :
          IF some
          THEN [st |-> "ok", cur |-> [c EXCEPT !.pos = n]]
          ELSE [st |-> "err", cur |-> c]))))))

SeekCurrent(c, off) == seek(c, [k |-> "Current", n |-> off])

\* write buf at the position: zero-fill the gap, overwrite, extend.
\* vec.resize(pos, 0) panics with a capacity overflow when pos exceeds
\* isize::MAX; below that, a position of 2^16 or more asks for a buffer
\* larger than the model holds ("alloc": the zero fill is not carried out).
write(c, buf) ==
  IF ULt(IsizeMax, c.pos)
  THEN [st |-> "panic", cur |-> c, n |-> 0]
  ELSE IF ~IsSmall(c.pos)
  THEN [st |-> "alloc", cur |-> c, n |-> 0]
  ELSE With(ToNat(c.pos), LAMBDA pos :
       With(IF Len(c.inner) < pos
            THEN c.inner \o [i \in 1..(pos - Len(c.inner)) |-> 0]
            ELSE c.inner, LAMBDA vec :
       With(Len(vec) - pos, LAMBDA space :
       With(IF space <= Len(buf) THEN space ELSE Len(buf), LAMBDA k :
       With(SubSeq(buf, 1, k), LAMBDA left :
       With(SubSeq(buf, k + 1, Len(buf)), LAMBDA right :
       With([i \in 1..Len(vec) |-> IF i > pos /\ i <= pos + k THEN left[i - pos] ELSE vec[i]] \o right, LAMBDA out :
          [st |-> "ok", cur |-> [inner |-> out, pos |-> U64(pos + Len(buf))], n |-> Len(buf)])))))))

RECURSIVE write_all(_, _)
write_all(c, buf) ==
  IF buf = <<>>
  THEN [st |-> "ok", cur |-> c]
  ELSE With(write(c, buf), LAMBDA w :
          IF w.st # "ok" THEN [st |-> w.st, cur |-> w.cur]
          ELSE IF w.n = 0 THEN [st |-> "err", cur |-> w.cur]
          ELSE write_all(w.cur, SubSeq(buf, w.n + 1, Len(buf))))

---------------------------------------------------------------------------
(* Fixed-width reads *)

read_u8(r) ==
  With(read_exact(r, 1), LAMBDA x :
     IF x.st = "ok" THEN [st |-> "ok", cur |-> x.cur, val |-> x.buf[1]]
     ELSE [st |-> "err", cur |-> x.cur, val |-> 0])

read_u16(r) ==
  With(read_exact(r, 2), LAMBDA x :
     IF x.st = "ok" THEN [st |-> "ok", cur |-> x.cur, val |-> BigEndianReadU16(x.buf)]
     ELSE [st |-> "err", cur |-> x.cur, val |-> 0])

read_u32(r) ==
  With(read_exact(r, 4), LAMBDA x :
     IF x.st = "ok" THEN [st |-> "ok", cur |-> x.cur, val |-> BigEndianRead(x.buf)]
     ELSE [st |-> "err", cur |-> x.cur, val |-> Zeros(2)])

read_u64(r) ==
  With(read_exact(r, 8), LAMBDA x :
     IF x.st = "ok" THEN [st |-> "ok", cur |-> x.cur, val |-> BigEndianRead(x.buf)]
     ELSE [st |-> "err", cur |-> x.cur, val |-> Zeros(4)])

---------------------------------------------------------------------------
(* Bits, byte strings *)

RECURSIVE Pow2(_)
Pow2(n) == IF n = 0 THEN 1 ELSE 2 * Pow2(n - 1)

RECURSIVE BitOr(_, _)
BitOr(a, b) ==
  IF a = 0 THEN b
  ELSE IF b = 0 THEN a
  ELSE 2 * BitOr(a \div 2, b \div 2) + (IF a % 2 = 1 \/ b % 2 = 1 THEN 1 ELSE 0)

\* u8 << n
Shl8(a, n) == (a * Pow2(n)) % 256

MinNat(a, b) == IF a <= b THEN a ELSE b

\* Ord of byte slices (Vec<u8>, str): lexicographic, a proper prefix first
BytesLt(a, b) ==
  \E i \in 1..(MinNat(Len(a), Len(b)) + 1) :
    /\ \A j \in 1..(i - 1) : a[j] = b[j]
    /\ \/ i > Len(a) /\ i <= Len(b)
       \/ i <= Len(a) /\ i <= Len(b) /\ a[i] < b[i]

Repeat(x, n) == [i \in 1..n |-> x]

---------------------------------------------------------------------------
(* IEEE-754 values: f64 is [sign, exp (11 bits), hi (top 23 mantissa     *)
(* bits), lo (low 29 mantissa bits)]; f32 is [sign, exp (8 bits), man].   *)

F64(sign, exp, hi, lo) == [sign |-> sign, exp |-> exp, hi |-> hi, lo |-> lo]

F32(sign, exp, man) == [sign |-> sign, exp |-> exp, man |-> man]

F64IsNan(x) == x.exp = 2047 /\ (x.hi # 0 \/ x.lo # 0)

F64IsInfinite(x) == x.exp = 2047 /\ x.hi = 0 /\ x.lo = 0

F64IsFinite(x) == x.exp # 2047

F32IsNan(y) == y.exp = 255 /\ y.man # 0

F32IsInfinite(y) == y.exp = 255 /\ y.man = 0

\* f64 == f64
F64Eq(x, y) ==
  /\ ~F64IsNan(x)
  /\ ~F64IsNan(y)
  /\ \/ x = y
     \/ x.exp = 0 /\ x.hi = 0 /\ x.lo = 0 /\ y.exp = 0 /\ y.hi = 0 /\ y.lo = 0

\* `x as f32`: round to nearest, ties to even
F64AsF32(x) ==
  IF x.exp = 2047
  THEN IF F64IsInfinite(x) THEN F32(x.sign, 255, 0)
       ELSE F32(x.sign, 255, BitOr(x.hi, Pow2(22)))
  ELSE IF x.exp = 0 THEN F32(x.sign, 0, 0)
  ELSE With(x.exp - 1023, LAMBDA e :
          IF e > 127 THEN F32(x.sign, 255, 0)
          ELSE IF e >= -126
          THEN With(Pow2(28), LAMBDA half :
               With(x.lo > half \/ (x.lo = half /\ x.hi % 2 = 1), LAMBDA up :
               With(IF up THEN x.hi + 1 ELSE x.hi, LAMBDA man :
               With(e + 127, LAMBDA e32 :
                  IF man = Pow2(23)
                  THEN (IF e32 + 1 = 255 THEN F32(x.sign, 255, 0) ELSE F32(x.sign, e32 + 1, 0))
                  ELSE F32(x.sign, e32, man)))))
          ELSE With(-126 - e, LAMBDA s :
                  IF s > 24 THEN F32(x.sign, 0, 0)
                  ELSE With(Pow2(23) + x.hi, LAMBDA sig :
                       With(sig \div Pow2(s), LAMBDA q :
                       With(sig % Pow2(s), LAMBDA rem :
                       With(Pow2(s - 1), LAMBDA half :
                       With(\/ rem > half
                            \/ rem = half /\ x.lo > 0
                            \/ rem = half /\ x.lo = 0 /\ q % 2 = 1, LAMBDA up :
                       With(IF up THEN q + 1 ELSE q, LAMBDA man :
                          IF man = Pow2(23) THEN F32(x.sign, 1, 0) ELSE F32(x.sign, 0, man)))))))))

\* the index of the highest set bit of a positive natural
RECURSIVE HighBit(_)
HighBit(n) == IF n <= 1 THEN 0 ELSE 1 + HighBit(n \div 2)

\* f64::from(f32): exact
F32ToF64(y) ==
  IF y.exp = 255 THEN F64(y.sign, 2047, y.man, 0)
  ELSE IF y.exp = 0
  THEN IF y.man = 0 THEN F64(y.sign, 0, 0, 0)
       ELSE With(HighBit(y.man), LAMBDA k :
               F64(y.sign, 1023 + k - 149, (y.man * Pow2(23 - k)) % Pow2(23), 0))
  ELSE F64(y.sign, y.exp + 896, y.man, 0)

\* BigEndian::write_f32 / read_f32
F32Bytes(y) ==
  <<y.sign * 128 + y.exp \div 2,
    (y.exp % 2) * 128 + y.man \div Pow2(16),
    (y.man \div 256) % 256,
    y.man % 256>>

F32FromBytes(b) ==
  F32(b[1] \div 128, (b[1] % 128) * 2 + b[2] \div 128, (b[2] % 128) * Pow2(16) + b[3] * 256 + b[4])

\* BigEndian::write_f64 / read_f64
F64Bytes(x) ==
  <<x.sign * 128 + x.exp \div 16,
    (x.exp % 16) * 16 + x.hi \div Pow2(19),
    (x.hi \div Pow2(11)) % 256,
    (x.hi \div 8) % 256,
    (x.hi % 8) * 32 + x.lo \div Pow2(24),
    (x.lo \div Pow2(16)) % 256,
    (x.lo \div 256) % 256,
    x.lo % 256>>

F64FromBytes(b) ==
  F64(b[1] \div 128,
      (b[1] % 128) * 16 + b[2] \div 16,
      (b[2] % 16) * Pow2(19) + b[3] * Pow2(11) + b[4] * 8 + b[5] \div 32,
      (b[5] % 32) * Pow2(24) + b[6] * Pow2(16) + b[7] * 256 + b[8])

read_f32(r) ==
  With(read_exact(r, 4), LAMBDA x :
     IF x.st = "ok" THEN [st |-> "ok", cur |-> x.cur, val |-> F32FromBytes(x.buf)]
     ELSE [st |-> "err", cur |-> x.cur, val |-> F32(0, 0, 0)])

read_f64(r) ==
  With(read_exact(r, 8), LAMBDA x :
     IF x.st = "ok" THEN [st |-> "ok", cur |-> x.cur, val |-> F64FromBytes(x.buf)]
     ELSE [st |-> "err", cur |-> x.cur, val |-> F64(0, 0, 0, 0)])

---------------------------------------------------------------------------
(* Content identifiers (crate cid): [version, codec, hash |-> [code,      *)
(* digest]].  Every varint of the identifiers drawn here is one byte.     *)

Cid(version, codec, code, digest) ==
  [version |-> version, codec |-> codec, hash |-> [code |-> code, digest |-> digest]]

\* Cid::to_bytes: a version-0 identifier is its bare multihash
CidToBytes(c) ==
  IF c.version = 0
  THEN <<c.hash.code, Len(c.hash.digest)>> \o c.hash.digest
  ELSE <<c.version, c.codec, c.hash.code, Len(c.hash.digest)>> \o c.hash.digest

\* unsigned-varint: [ok, val, rest]
RECURSIVE ReadVarint(_)
ReadVarint(b) ==
  IF b = <<>> THEN [ok |-> FALSE, val |-> 0, rest |-> <<>>]
  ELSE IF b[1] < 128 THEN [ok |-> TRUE, val |-> b[1], rest |-> Tail(b)]
  ELSE With(ReadVarint(Tail(b)), LAMBDA r :
          IF r.ok /\ r.val > 0 /\ r.val < Pow2(21)
          THEN [ok |-> TRUE, val |-> (b[1] - 128) + 128 * r.val, rest |-> r.rest]
          ELSE [ok |-> FALSE, val |-> 0, rest |-> <<>>])

\* Multihash::read: code, size (at most 64), digest
ReadMultihash(b) ==
  With(ReadVarint(b), LAMBDA code :
  With(ReadVarint(code.rest), LAMBDA size :
     IF code.ok /\ size.ok /\ size.val <= 64 /\ Len(size.rest) >= size.val
     THEN [ok |-> TRUE, hash |-> [code |-> code.val, digest |-> SubSeq(size.rest, 1, size.val)]]
     ELSE [ok |-> FALSE, hash |-> [code |-> 0, digest |-> <<>>]]))

\* Cid::try_from(&[u8]): reads one identifier from the front of the slice
CidTryFrom(b) ==
  With(ReadVarint(b), LAMBDA version :
  With(ReadVarint(version.rest), LAMBDA codec :
  With([ok |-> FALSE, cid |-> Cid(1, 0, 0, <<>>)], LAMBDA bad :
     IF ~(version.ok /\ codec.ok) THEN bad
     ELSE IF version.val = 18 /\ codec.val = 32
     THEN (IF Len(codec.rest) >= 32
           THEN [ok |-> TRUE, cid |-> Cid(0, 112, 18, SubSeq(codec.rest, 1, 32))]
           ELSE bad)
     ELSE IF version.val # 1 THEN bad
     ELSE With(ReadMultihash(codec.rest), LAMBDA mh :
             IF mh.ok THEN [ok |-> TRUE, cid |-> [version |-> 1, codec |-> codec.val, hash |-> mh.hash]]
             ELSE bad))))

---------------------------------------------------------------------------
(* Framing writes *)

write_null(w) == write_all(w, <<246>>)

write_u8(w, major, value) ==
  IF value <= 23
  THEN write_all(w, <<BitOr(Shl8(major, 5), value)>>)
  ELSE write_all(w, <<BitOr(Shl8(major, 5), 24), value>>)

\* value is a u16
write_u16(w, major, value) ==
  IF value <= 255
  THEN write_u8(w, major, value)
  ELSE write_all(w, <<BitOr(Shl8(major, 5), 25)>> \o BigEndianWriteU16(value))

\* a write_u32 that never falls through to the narrower forms
WriteU32Wide(w, major, value) ==
  write_all(w, <<BitOr(Shl8(major, 5), 26)>> \o BigEndianWrite(value))

\* value is a u32: two limbs
write_u32(w, major, value) ==
  IF value[2] = 0
  THEN write_u16(w, major, value[1])
  ELSE write_all(w, <<BitOr(Shl8(major, 5), 26)>> \o BigEndianWrite(value))

\* value is a u64: four limbs
write_u64(w, major, value) ==
  IF value[3] = 0 /\ value[4] = 0
  THEN write_u32(w, major, Truncate(value, 2))
  ELSE write_all(w, <<BitOr(Shl8(major, 5), 27)>> \o BigEndianWrite(value))

write_tag(w, tag) == write_u64(w, 6, tag)

---------------------------------------------------------------------------
(* Encoder.  An Ipld value is a record tagged by t:                        *)
(*   Null | Bool b | Integer i (i128) | Float f (f64) | String s (UTF-8   *)
(*   bytes) | Bytes bytes | List l | StringMap m (function on its keys) | *)
(*   Link cid.   Every encoder returns [st, cur].                         *)

Null == [t |-> "Null"]

Bool(b) == [t |-> "Bool", b |-> b]

Integer(i) == [t |-> "Integer", i |-> i]

Float(f) == [t |-> "Float", f |-> f]

String(s) == [t |-> "String", s |-> s]

Bytes(b) == [t |-> "Bytes", bytes |-> b]

List(l) == [t |-> "List", l |-> l]

StringMap(m) == [t |-> "StringMap", m |-> m]

Link(c) == [t |-> "Link", cid |-> c]

Err(w) == [st |-> "err", cur |-> w]

Encode_bool(b, w) == write_all(w, IF b THEN <<245>> ELSE <<244>>)

\* an encoder that writes every f32 in the four-byte form
EncodeF32AlwaysSingle(y, w) == write_all(w, <<250>> \o F32Bytes(y))

Encode_f32(y, w) ==
  IF F32IsInfinite(y)
  THEN (IF y.sign = 0 THEN write_all(w, <<249, 124, 0>>) ELSE write_all(w, <<249, 252, 0>>))
  ELSE IF F32IsNan(y) THEN write_all(w, <<249, 126, 0>>)
  ELSE write_all(w, <<250>> \o F32Bytes(y))

Encode_f64(x, w) ==
  IF ~F64IsFinite(x) \/ F64Eq(F32ToF64(F64AsF32(x)), x)
  THEN Encode_f32(F64AsF32(x), w)
  ELSE write_all(w, <<251>> \o F64Bytes(x))

Encode_bytes(b, w) ==
  With(write_u64(w, 2, U64(Len(b))), LAMBDA h :
     IF h.st # "ok" THEN h ELSE write_all(h.cur, b))

Encode_str(s, w) ==
  With(write_u64(w, 3, U64(Len(s))), LAMBDA h :
     IF h.st # "ok" THEN h ELSE write_all(h.cur, s))

\* an i128 encoder without the two range checks
Encode_i128_Unchecked(x, w) ==
  IF SLt(x, Zeros(8))
  THEN write_u64(w, 1, Truncate(WrappingNeg(WrappingAdd(x, FromNat(1, 8))), 4))
  ELSE write_u64(w, 0, Truncate(x, 4))

Encode_i128(x, w) ==
  IF SLt(x, Zeros(8))
  THEN With(WrappingNeg(WrappingAdd(x, FromNat(1, 8))), LAMBDA m :
          IF SLt(U64MaxAsI128, m) THEN Err(w) ELSE write_u64(w, 1, Truncate(m, 4)))
  ELSE IF SLt(U64MaxAsI128, x) THEN Err(w) ELSE write_u64(w, 0, Truncate(x, 4))

Encode_Cid(c, w) ==
  With(write_tag(w, U64(42)), LAMBDA t :
  With(CidToBytes(c), LAMBDA buf :
  With(Len(buf), LAMBDA len :
     IF t.st # "ok" THEN t
     ELSE With(write_u64(t.cur, 2, WrappingAdd(U64(len), U64(1))), LAMBDA h :
             IF h.st # "ok" THEN h
             ELSE With(write_all(h.cur, <<0>>), LAMBDA z :
                     IF z.st # "ok" THEN z ELSE write_all(z.cur, SubSeq(buf, 1, len)))))))

\* the key encoded into a scratch cursor, as the sort's comparator does
ScratchKey(k) == Encode_str(k, ByteCursorNew(<<>>)).cur.inner

\* BTreeMap::iter: the entries in ascending key order (Ord of String)
RECURSIVE BTreeMapIter(_)
BTreeMapIter(m) ==
  IF DOMAIN m = {} THEN <<>>
  ELSE With(CHOOSE x \in DOMAIN m : \A y \in DOMAIN m : x = y \/ BytesLt(x, y), LAMBDA k :
          <<<<k, m[k]>>>> \o BTreeMapIter([y \in (DOMAIN m) \ {k} |-> m[y]]))

RECURSIVE SortInsert(_, _)
SortInsert(s, e) ==
  IF s = <<>> THEN <<e>>
  ELSE IF BytesLt(ScratchKey(e[1]), ScratchKey(Head(s)[1])) THEN <<e>> \o s
  ELSE <<Head(s)>> \o SortInsert(Tail(s), e)

\* a sort that leaves the entries in the iteration order of the BTreeMap
SortKeepsIterationOrder(vec) == vec

\* vec.sort_unstable_by(encoded key): the keys are distinct, the order is total
RECURSIVE sort_unstable_by(_)
sort_unstable_by(vec) ==
  IF vec = <<>> THEN <<>> ELSE SortInsert(sort_unstable_by(Tail(vec)), Head(vec))

RECURSIVE Encode_Ipld(_, _)

RECURSIVE EncodeItems(_, _)
EncodeItems(l, w) ==
  IF l = <<>> THEN [st |-> "ok", cur |-> w]
  ELSE With(Encode_Ipld(Head(l), w), LAMBDA r :
          IF r.st # "ok" THEN r ELSE EncodeItems(Tail(l), r.cur))

Encode_Vec(l, w) ==
  With(write_u64(w, 4, U64(Len(l))), LAMBDA h :
     IF h.st # "ok" THEN h ELSE EncodeItems(l, h.cur))

RECURSIVE EncodeEntries(_, _)
EncodeEntries(vec, w) ==
  IF vec = <<>> THEN [st |-> "ok", cur |-> w]
  ELSE With(Encode_str(Head(vec)[1], w), LAMBDA k :
          IF k.st # "ok" THEN k
          ELSE With(Encode_Ipld(Head(vec)[2], k.cur), LAMBDA v :
                  IF v.st # "ok" THEN v ELSE EncodeEntries(Tail(vec), v.cur)))

Encode_BTreeMap(m, w) ==
  With(write_u64(w, 5, U64(Cardinality(DOMAIN m))), LAMBDA h :
     IF h.st # "ok" THEN h
     ELSE EncodeEntries(sort_unstable_by(BTreeMapIter(m)), h.cur))

Encode_Ipld(v, w) ==
  CASE v.t = "Null" -> write_null(w)
    [] v.t = "Bool" -> Encode_bool(v.b, w)
    [] v.t = "Integer" -> Encode_i128(v.i, w)
    [] v.t = "Float" -> Encode_f64(v.f, w)
    [] v.t = "Bytes" -> Encode_bytes(v.bytes, w)
    [] v.t = "String" -> Encode_str(v.s, w)
    [] v.t = "List" -> Encode_Vec(v.l, w)
    [] v.t = "StringMap" -> Encode_BTreeMap(v.m, w)
    [] v.t = "Link" -> Encode_Cid(v.cid, w)

---------------------------------------------------------------------------
(* Length-prefixed reads.  Every reader returns [st, cur, val] with st     *)
(* one of "ok", "err" (the Err result) and "panic".                        *)

\* core::str::from_utf8
RECURSIVE Utf8Valid(_)
Utf8Valid(b) ==
  IF b = <<>> THEN TRUE
  ELSE LET c == b[1]
           n == Len(b)
           Cont(i) == i <= n /\ b[i] >= 128 /\ b[i] <= 191
           Second(lo, hi) == n >= 2 /\ b[2] >= lo /\ b[2] <= hi
       IN IF c <= 127 THEN Utf8Valid(Tail(b))
          ELSE IF c >= 194 /\ c <= 223 THEN Cont(2) /\ Utf8Valid(SubSeq(b, 3, n))
          ELSE IF c = 224 THEN Second(160, 191) /\ Cont(3) /\ Utf8Valid(SubSeq(b, 4, n))
          ELSE IF (c >= 225 /\ c <= 236) \/ c = 238 \/ c = 239
          THEN Cont(2) /\ Cont(3) /\ Utf8Valid(SubSeq(b, 4, n))
          ELSE IF c = 237 THEN Second(128, 159) /\ Cont(3) /\ Utf8Valid(SubSeq(b, 4, n))
          ELSE IF c = 240 THEN Second(144, 191) /\ Cont(3) /\ Cont(4) /\ Utf8Valid(SubSeq(b, 5, n))
          ELSE IF c >= 241 /\ c <= 243 THEN Cont(2) /\ Cont(3) /\ Cont(4) /\ Utf8Valid(SubSeq(b, 5, n))
          ELSE IF c = 244 THEN Second(128, 143) /\ Cont(3) /\ Cont(4) /\ Utf8Valid(SubSeq(b, 5, n))
          ELSE FALSE

\* len is a usize (four limbs).  vec![0; len] panics with a capacity
\* overflow beyond isize::MAX; a length the buffer cannot supply is a short
\* read (the buffers of the model are shorter than 2^16 bytes).
read_bytes(r, len) ==
  IF ULt(IsizeMax, len) THEN [st |-> "panic", cur |-> r, val |-> <<>>]
  ELSE IF ~IsSmall(len) THEN [st |-> "err", cur |-> r, val |-> <<>>]
  ELSE With(read_exact(r, ToNat(len)), LAMBDA x :
          [st |-> x.st, cur |-> x.cur, val |-> x.buf])

read_str(r, len) ==
  With(read_bytes(r, len), LAMBDA x :
     IF x.st # "ok" THEN x
     ELSE IF Utf8Valid(x.val) THEN x
     ELSE [st |-> "err", cur |-> x.cur, val |-> <<>>])

read_len(r, major) ==
  IF major <= 23 THEN [st |-> "ok", cur |-> r, val |-> U64(major)]
  ELSE IF major = 24 THEN (With(read_u8(r), LAMBDA x : [st |-> x.st, cur |-> x.cur, val |-> U64(x.val)]))
  ELSE IF major = 25 THEN (With(read_u16(r), LAMBDA x : [st |-> x.st, cur |-> x.cur, val |-> U64(x.val)]))
  ELSE IF major = 26 THEN (With(read_u32(r), LAMBDA x : [st |-> x.st, cur |-> x.cur, val |-> ZeroExtend(x.val, 4)]))
  ELSE IF major = 27 THEN read_u64(r)
  ELSE [st |-> "err", cur |-> r, val |-> U64(0)]

\* a read_link that does not look at the first payload byte
ReadLinkAnyPrefix(r) ==
  LET bad(c) == [st |-> "err", cur |-> c, val |-> Cid(1, 0, 0, <<>>)]
  IN With(read_u8(r), LAMBDA ty :
     IF ty.st # "ok" THEN bad(ty.cur)
     ELSE IF ty.val # 88 THEN bad(ty.cur)
     ELSE With(read_u8(ty.cur), LAMBDA len :
             IF len.st # "ok" THEN bad(len.cur)
             ELSE IF len.val = 0 THEN bad(len.cur)
             ELSE With(read_bytes(len.cur, U64(len.val)), LAMBDA bytes :
                     IF bytes.st # "ok" THEN bad(bytes.cur)
                     ELSE With(CidTryFrom(Tail(bytes.val)), LAMBDA c :
                             IF c.ok THEN [st |-> "ok", cur |-> bytes.cur, val |-> c.cid]
                             ELSE bad(bytes.cur)))))

read_link(r) ==
  LET bad(c) == [st |-> "err", cur |-> c, val |-> Cid(1, 0, 0, <<>>)]
  IN With(read_u8(r), LAMBDA ty :
     IF ty.st # "ok" THEN bad(ty.cur)
     ELSE IF ty.val # 88 THEN bad(ty.cur)
     ELSE With(read_u8(ty.cur), LAMBDA len :
             IF len.st # "ok" THEN bad(len.cur)
             ELSE IF len.val = 0 THEN bad(len.cur)
             ELSE With(read_bytes(len.cur, U64(len.val)), LAMBDA bytes :
                     IF bytes.st # "ok" THEN bad(bytes.cur)
                     ELSE IF bytes.val[1] # 0 THEN bad(bytes.cur)
                     ELSE With(CidTryFrom(Tail(bytes.val)), LAMBDA c :
                             IF c.ok THEN [st |-> "ok", cur |-> bytes.cur, val |-> c.cid]
                             ELSE bad(bytes.cur)))))

\* Vec::<Ipld>::with_capacity(len) panics with a capacity overflow when
\* len * size_of::<Ipld>() exceeds isize::MAX; an Ipld takes between 64 and
\* 128 bytes (it holds a Cid), so 2^57 elements always overflow.
VecCapacityOverflow(len) == len[4] >= 512

Decode_String(r) ==
  With(read_u8(r), LAMBDA major :
     IF major.st # "ok" THEN [st |-> "err", cur |-> major.cur, val |-> <<>>]
     ELSE IF major.val >= 96 /\ major.val <= 123
     THEN With(read_len(major.cur, major.val - 96), LAMBDA len :
             IF len.st # "ok" THEN [st |-> len.st, cur |-> len.cur, val |-> <<>>]
             ELSE read_str(len.cur, len.val))
     ELSE [st |-> "err", cur |-> major.cur, val |-> <<>>])

EmptyMap == [k \in {} |-> Null]

\* an insert that keeps the value a key already has
MapInsertKeepsFirst(m, k, v) == [x \in (DOMAIN m) \cup {k} |-> IF x \in DOMAIN m THEN m[x] ELSE v]

\* BTreeMap::insert: a repeated key keeps the later value
MapInsert(m, k, v) == [x \in (DOMAIN m) \cup {k} |-> IF x = k THEN v ELSE m[x]]

RECURSIVE Decode_Ipld(_)

\* for _ in 0..len { list.push(T::decode(r)?) }
RECURSIVE ReadListLoop(_, _, _)
ReadListLoop(r, len, list) ==
  IF len = U64(0) THEN [st |-> "ok", cur |-> r, val |-> list]
  ELSE With(Decode_Ipld(r), LAMBDA x :
          IF x.st # "ok" THEN [st |-> x.st, cur |-> x.cur, val |-> <<>>]
          ELSE ReadListLoop(x.cur, WrappingSub(len, U64(1)), Append(list, x.val)))

read_list(r, len) ==
  IF VecCapacityOverflow(len) THEN [st |-> "panic", cur |-> r, val |-> <<>>]
  ELSE ReadListLoop(r, len, <<>>)

RECURSIVE ReadListIlLoop(_, _)
\* a read loop that does not step back over the byte it peeked
ReadListIlLoopNoStepBack(r, list) ==
  With(read_u8(r), LAMBDA major :
     IF major.st # "ok" THEN [st |-> "err", cur |-> major.cur, val |-> <<>>]
     ELSE IF major.val = 255 THEN [st |-> "ok", cur |-> major.cur, val |-> list]
     ELSE With(Decode_Ipld(major.cur), LAMBDA x :
             IF x.st # "ok" THEN [st |-> x.st, cur |-> x.cur, val |-> <<>>]
             ELSE ReadListIlLoop(x.cur, Append(list, x.val))))

ReadListIlLoop(r, list) ==
  With(read_u8(r), LAMBDA major :
     IF major.st # "ok" THEN [st |-> "err", cur |-> major.cur, val |-> <<>>]
     ELSE IF major.val = 255 THEN [st |-> "ok", cur |-> major.cur, val |-> list]
     ELSE With(SeekCurrent(major.cur, Ones(4)), LAMBDA back :
             IF back.st # "ok" THEN [st |-> "err", cur |-> back.cur, val |-> <<>>]
             ELSE With(Decode_Ipld(back.cur), LAMBDA x :
                     IF x.st # "ok" THEN [st |-> x.st, cur |-> x.cur, val |-> <<>>]
                     ELSE ReadListIlLoop(x.cur, Append(list, x.val)))))

read_list_il(r) == ReadListIlLoop(r, <<>>)

\* one key-value pair of a map: [st, cur, key, val]
ReadEntry(r) ==
  With(Decode_String(r), LAMBDA key :
     IF key.st # "ok" THEN [st |-> key.st, cur |-> key.cur, key |-> <<>>, val |-> Null]
     ELSE With(Decode_Ipld(key.cur), LAMBDA value :
             [st |-> value.st, cur |-> value.cur, key |-> key.val, val |-> value.val]))

RECURSIVE ReadMapLoop(_, _, _)
ReadMapLoop(r, len, map) ==
  IF len = U64(0) THEN [st |-> "ok", cur |-> r, val |-> map]
  ELSE With(ReadEntry(r), LAMBDA e :
          IF e.st # "ok" THEN [st |-> e.st, cur |-> e.cur, val |-> EmptyMap]
          ELSE ReadMapLoop(e.cur, WrappingSub(len, U64(1)), MapInsert(map, e.key, e.val)))

read_map(r, len) == ReadMapLoop(r, len, EmptyMap)

RECURSIVE ReadMapIlLoop(_, _)
ReadMapIlLoop(r, map) ==
  With(read_u8(r), LAMBDA major :
     IF major.st # "ok" THEN [st |-> "err", cur |-> major.cur, val |-> EmptyMap]
     ELSE IF major.val = 255 THEN [st |-> "ok", cur |-> major.cur, val |-> map]
     ELSE With(SeekCurrent(major.cur, Ones(4)), LAMBDA back :
             IF back.st # "ok" THEN [st |-> "err", cur |-> back.cur, val |-> EmptyMap]
             ELSE With(ReadEntry(back.cur), LAMBDA e :
                     IF e.st # "ok" THEN [st |-> e.st, cur |-> e.cur, val |-> EmptyMap]
                     ELSE ReadMapIlLoop(e.cur, MapInsert(map, e.key, e.val)))))

read_map_il(r) == ReadMapIlLoop(r, EmptyMap)

---------------------------------------------------------------------------
(* Decoder of the value sum *)

InRange(x, lo, hi) == x >= lo /\ x <= hi

MinusOne128 == Ones(8)

Fail(st, c) == [st |-> st, cur |-> c, val |-> Null]

---------------------------------------------------------------------------
(* Typed scalar decoders.  Every result is held in four limbs: an unsigned *)
(* value zero-extended, a signed value sign-extended to 64 bits.           *)

TypedScalars == {"u8", "u16", "u32", "u64", "i8", "i16", "i32", "i64"}

Signed(ty) == ty \in {"i8", "i16", "i32", "i64"}

Bits(ty) ==
  CASE ty \in {"u8", "i8"} -> 8
    [] ty \in {"u16", "i16"} -> 16
    [] ty \in {"u32", "i32"} -> 32
    [] OTHER -> 64

\* the match arms after the initial byte: the magnitude for additional
\* information info, read in the widths the target of `bits` bits has arms for
ReadMagnitude(r, info, bits) ==
  IF info <= 23 THEN [st |-> "ok", cur |-> r, val |-> U64(info)]
  ELSE IF info = 24
  THEN With(read_u8(r), LAMBDA x : [st |-> x.st, cur |-> x.cur, val |-> U64(x.val)])
  ELSE IF info = 25 /\ bits >= 16
  THEN With(read_u16(r), LAMBDA x : [st |-> x.st, cur |-> x.cur, val |-> U64(x.val)])
  ELSE IF info = 26 /\ bits >= 32
  THEN With(read_u32(r), LAMBDA x : [st |-> x.st, cur |-> x.cur, val |-> ZeroExtend(x.val, 4)])
  ELSE IF info = 27 /\ bits >= 64 THEN read_u64(r)
  ELSE [st |-> "err", cur |-> r, val |-> Zeros(4)]

\* 2^(bits - 1) and 2^bits modulo 2^64
HalfRange(bits) ==
  CASE bits = 8 -> <<128, 0, 0, 0>>
    [] bits = 16 -> <<Base \div 2, 0, 0, 0>>
    [] bits = 32 -> <<0, Base \div 2, 0, 0>>
    [] OTHER -> <<0, 0, 0, Base \div 2>>

FullRange(bits) ==
  CASE bits = 8 -> <<256, 0, 0, 0>>
    [] bits = 16 -> <<0, 1, 0, 0>>
    [] bits = 32 -> <<0, 0, 1, 0>>
    [] OTHER -> Zeros(4)

\* `m as Self` for a signed Self of `bits` bits and m < 2^bits: the same bits
\* read as two's complement
AsSigned(m, bits) == IF ULt(m, HalfRange(bits)) THEN m ELSE WrappingSub(m, FullRange(bits))

\* TRUE for the arm that reads a magnitude as wide as the target
WidestArm(info, bits) ==
  \/ info = 24 /\ bits = 8
  \/ info = 25 /\ bits = 16
  \/ info = 26 /\ bits = 32
  \/ info = 27 /\ bits = 64

\* Decode for u8, u16, u32, u64
Decode_unsigned(r, bits) ==
  With(read_u8(r), LAMBDA major :
     IF major.st # "ok" THEN [st |-> "err", cur |-> major.cur, val |-> Zeros(4)]
     ELSE IF InRange(major.val, 0, 27) THEN ReadMagnitude(major.cur, major.val, bits)
     ELSE [st |-> "err", cur |-> major.cur, val |-> Zeros(4)])

\* Decode for i8, i16, i32, i64: -1 - magnitude, the magnitude of the widest
\* arm converted with `as Self`
Decode_signed(r, bits) ==
  With(read_u8(r), LAMBDA major :
     IF major.st # "ok" THEN [st |-> "err", cur |-> major.cur, val |-> Zeros(4)]
     ELSE IF InRange(major.val, 32, 59)
     THEN With(ReadMagnitude(major.cur, major.val - 32, bits), LAMBDA m :
             IF m.st # "ok" THEN m
             ELSE [st |-> "ok", cur |-> m.cur,
                   val |-> WrappingSub(Ones(4),
                                       IF WidestArm(major.val - 32, bits)
                                       THEN AsSigned(m.val, bits) ELSE m.val)])
     ELSE [st |-> "err", cur |-> major.cur, val |-> Zeros(4)])

Decode_scalar(ty, r) ==
  IF Signed(ty) THEN Decode_signed(r, Bits(ty)) ELSE Decode_unsigned(r, Bits(ty))

\* Encode for i8, i16, i32, i64: write_uN(w, 1, -(*self + 1) as uN).  x is
\* the value as an i64.  `*self + 1` overflows for the largest value of the
\* type, and the negation of the wrapped sum overflows again: a build with
\* overflow checks panics there, a build without them wraps.
TypeMax(bits) == WrappingSub(HalfRange(bits), U64(1))

TypeMin(bits) == WrappingNeg(HalfRange(bits))

\* -(x + 1) as uN, computed modulo 2^bits
NegSuccAs(x, bits) ==
  With(WrappingNeg(WrappingAdd(x, U64(1))), LAMBDA n :
     CASE bits = 8 -> n[1] % 256
       [] bits = 16 -> n[1]
       [] bits = 32 -> Truncate(n, 2)
       [] OTHER -> n)

Encode_signed(ty, x, w, checks) ==
  IF checks /\ x = TypeMax(Bits(ty)) THEN [st |-> "panic", cur |-> w]
  ELSE CASE Bits(ty) = 8 -> write_u8(w, 1, NegSuccAs(x, 8))
         [] Bits(ty) = 16 -> write_u16(w, 1, NegSuccAs(x, 16))
         [] Bits(ty) = 32 -> write_u32(w, 1, NegSuccAs(x, 32))
         [] OTHER -> write_u64(w, 1, NegSuccAs(x, 64))

\* wraps the payload of a reader into a value with the constructor Mk
Wrap(x, Mk(_)) == IF x.st # "ok" THEN Fail(x.st, x.cur) ELSE [st |-> "ok", cur |-> x.cur, val |-> Mk(x.val)]

UnsignedInteger(u) == Integer(ZeroExtend(u, 8))

NegativeInteger(u) == Integer(WrappingSub(MinusOne128, ZeroExtend(u, 8)))

\* a u8 or u16 payload, held as a natural
UnsignedSmall(n) == Integer(FromNat(n, 8))

\* a negative small integer read as its magnitude
NegativeSmallAsMagnitude(n) == Integer(FromNat(n, 8))

NegativeSmall(n) == Integer(WrappingSub(MinusOne128, FromNat(n, 8)))

FloatFromF32(y) == Float(F32ToF64(y))

\* reads the length for the initial byte, then the payload with Read
Prefixed(r, info, Read(_, _), Mk(_)) ==
  With(read_len(r, info), LAMBDA len :
     IF len.st # "ok" THEN Fail(len.st, len.cur) ELSE Wrap(Read(len.cur, len.val), Mk))

Decode_Ipld(r) ==
  With(read_u8(r), LAMBDA m :
  With(m.val, LAMBDA major :
  With(m.cur, LAMBDA c :
     IF m.st # "ok" THEN Fail("err", c)
     \* Major type 0: an unsigned integer
     ELSE IF InRange(major, 0, 23) THEN [st |-> "ok", cur |-> c, val |-> UnsignedSmall(major)]
     ELSE IF major = 24 THEN Wrap(read_u8(c), UnsignedSmall)
     ELSE IF major = 25 THEN Wrap(read_u16(c), UnsignedSmall)
     ELSE IF major = 26 THEN Wrap(read_u32(c), UnsignedInteger)
     ELSE IF major = 27 THEN Wrap(read_u64(c), UnsignedInteger)
     \* Major type 1: a negative integer
     ELSE IF InRange(major, 32, 55) THEN [st |-> "ok", cur |-> c, val |-> NegativeSmall(major - 32)]
     ELSE IF major = 56 THEN Wrap(read_u8(c), NegativeSmall)
     ELSE IF major = 57 THEN Wrap(read_u16(c), NegativeSmall)
     ELSE IF major = 58 THEN Wrap(read_u32(c), NegativeInteger)
     ELSE IF major = 59 THEN Wrap(read_u64(c), NegativeInteger)
     \* Major types 2, 3, 4, 5
     ELSE IF InRange(major, 64, 91) THEN Prefixed(c, major - 64, read_bytes, Bytes)
     ELSE IF InRange(major, 96, 123) THEN Prefixed(c, major - 96, read_str, String)
     ELSE IF InRange(major, 128, 155) THEN Prefixed(c, major - 128, read_list, List)
     ELSE IF major = 159 THEN Wrap(read_list_il(c), List)
     ELSE IF InRange(major, 160, 187) THEN Prefixed(c, major - 160, read_map, StringMap)
     ELSE IF major = 191
     THEN With(seek(c, [k |-> "Current", n |-> U64(0)]), LAMBDA pos :
             IF pos.st # "ok" THEN Fail("err", pos.cur)
             ELSE Wrap(read_map_il(seek(pos.cur, [k |-> "Start", n |-> pos.cur.pos]).cur), StringMap))
     \* Major type 6: tag 42 introduces a link
     ELSE IF major = 216
     THEN With(read_u8(c), LAMBDA tag :
             IF tag.st # "ok" THEN Fail("err", tag.cur)
             ELSE IF tag.val = 42 THEN Wrap(read_link(tag.cur), Link)
             ELSE Fail("err", tag.cur))
     \* Major type 7
     ELSE IF major = 244 THEN [st |-> "ok", cur |-> c, val |-> Bool(FALSE)]
     ELSE IF major = 245 THEN [st |-> "ok", cur |-> c, val |-> Bool(TRUE)]
     ELSE IF major = 246 \/ major = 247 THEN [st |-> "ok", cur |-> c, val |-> Null]
     ELSE IF major = 250 THEN Wrap(read_f32(c), FloatFromF32)
     ELSE IF major = 251 THEN Wrap(read_f64(c), Float)
     ELSE Fail("err", c))))

---------------------------------------------------------------------------
(* Option<Ipld> *)

None == [some |-> FALSE, val |-> Null]

Some(v) == [some |-> TRUE, val |-> v]

Encode_Option(o, w) == IF o.some THEN Encode_Ipld(o.val, w) ELSE write_null(w)

\* a decoder that does not step back over the byte it read
DecodeOptionNoStepBack(r) ==
  With(read_u8(r), LAMBDA major :
     IF major.st # "ok" THEN [st |-> "err", cur |-> major.cur, val |-> None]
     ELSE IF major.val \in {246, 247} THEN [st |-> "ok", cur |-> major.cur, val |-> None]
     ELSE With(Decode_Ipld(major.cur), LAMBDA x :
             [st |-> x.st, cur |-> x.cur, val |-> IF x.st = "ok" THEN Some(x.val) ELSE None]))

Decode_Option(r) ==
  With(read_u8(r), LAMBDA major :
     IF major.st # "ok" THEN [st |-> "err", cur |-> major.cur, val |-> None]
     ELSE IF major.val \in {246, 247} THEN [st |-> "ok", cur |-> major.cur, val |-> None]
     ELSE With(SeekCurrent(major.cur, Ones(4)), LAMBDA back :
             IF back.st # "ok" THEN [st |-> "err", cur |-> back.cur, val |-> None]
             ELSE With(Decode_Ipld(back.cur), LAMBDA x :
                     [st |-> x.st, cur |-> x.cur,
                      val |-> IF x.st = "ok" THEN Some(x.val) ELSE None])))

---------------------------------------------------------------------------
(* Primitive operations (prim.rs).  An Op is [family, op]: the family and  *)
(* the operation inside it, which the family modules number from 0.        *)

Families ==
  {"Nat", "Int", "Bytes", "Text", "Char", "Bool", "U8", "U16", "U32", "U64", "U128", "I8"}

\* a table whose last family shares the tag of the one before
TagOfClampedAtTen(family) ==
  CASE family = "Nat" -> 0 [] family = "Int" -> 1 [] family = "Bytes" -> 2
    [] family = "Text" -> 3 [] family = "Char" -> 4 [] family = "Bool" -> 5
    [] family = "U8" -> 6 [] family = "U16" -> 7 [] family = "U32" -> 8
    [] family = "U64" -> 9 [] OTHER -> 10

\* the tag Op::to_ipld writes for a family
TagOf(family) ==
  CASE family = "Nat" -> 0 [] family = "Int" -> 1 [] family = "Bytes" -> 2
    [] family = "Text" -> 3 [] family = "Char" -> 4 [] family = "Bool" -> 5
    [] family = "U8" -> 6 [] family = "U16" -> 7 [] family = "U32" -> 8
    [] family = "U64" -> 9 [] family = "U128" -> 10 [] family = "I8" -> 11

\* the family Op::from_ipld reads a tag as
FamilyOfTag(n) ==
  CASE n = 0 -> "Nat" [] n = 1 -> "Int" [] n = 2 -> "Bytes" [] n = 3 -> "Text"
    [] n = 4 -> "Char" [] n = 5 -> "Bool" [] n = 6 -> "U8" [] n = 7 -> "U16"
    [] n = 8 -> "U32" [] n = 9 -> "U64" [] n = 10 -> "U128" [] n = 11 -> "I8"

\* the to_ipld / from_ipld of a family: an operation is written as its
\* number and read back from it
FamilyToIpld(family, o) == Integer(FromNat(o, 8))

FamilyFromIpld(family, ys) ==
  IF ys.t = "Integer" /\ ys.i \in { FromNat(o, 8) : o \in 0..MaxFamilyOp }
  THEN [st |-> "ok", val |-> [family |-> family, op |-> ToNat(ys.i)]]
  ELSE [st |-> "err", val |-> [family |-> family, op |-> 0]]

Op_to_ipld(x) == List(<<Integer(FromNat(TagOf(x.family), 8)), FamilyToIpld(x.family, x.op)>>)

Op_from_ipld(ipld) ==
  IF /\ ipld.t = "List"
     /\ Len(ipld.l) = 2
     /\ ipld.l[1].t = "Integer"
     /\ ipld.l[1].i \in { FromNat(n, 8) : n \in 0..11 }
  THEN FamilyFromIpld(FamilyOfTag(ToNat(ipld.l[1].i)), ipld.l[2])
  ELSE [st |-> "err", val |-> [family |-> "Nat", op |-> 0]]

---------------------------------------------------------------------------
(* skip: [st, cur] *)

\* the initial bytes that carry no payload, and those with a fixed payload
NoPayload(major) == InRange(major, 0, 23) \/ InRange(major, 32, 55) \/ InRange(major, 244, 247)

\* a payload table that knows the one-byte payloads only
FixedPayloadOneByte(major) == IF major \in {24, 56, 248} THEN 1 ELSE 0

FixedPayload(major) ==
  IF major \in {24, 56, 248} THEN 1
  ELSE IF major \in {25, 57, 249} THEN 2
  ELSE IF major \in {26, 58, 250} THEN 4
  ELSE IF major \in {27, 59, 251} THEN 8
  ELSE 0

\* r.seek(&SeekFrom::Current(len as _))? after read_len
SkipPrefixed(r, info) ==
  With(read_len(r, info), LAMBDA len :
     IF len.st # "ok" THEN [st |-> len.st, cur |-> len.cur]
     ELSE SeekCurrent(len.cur, len.val))

\* A traversal is a function of the position it starts from: the bytes do
\* not change while it runs.  `held` is the set of the traversals in
\* progress, <<0, pos>> for a call that began at pos and <<per, pos>> for an
\* indefinite-length loop that began an iteration at pos.  A traversal that
\* comes back to one of them waits for itself and never returns ("diverge":
\* the loop spins, or the recursion exhausts the stack).
RECURSIVE skip(_, _)

\* for _ in 0..len { skip; (skip) }: per is 1 for an array, 2 for a map
RECURSIVE SkipLoop(_, _, _, _)
SkipLoop(r, len, per, held) ==
  IF len = U64(0) THEN [st |-> "ok", cur |-> r]
  ELSE With(skip(r, held), LAMBDA a :
       With(IF a.st = "ok" /\ per = 2 THEN skip(a.cur, held) ELSE a, LAMBDA b :
          IF b.st # "ok" THEN b ELSE SkipLoop(b.cur, WrappingSub(len, U64(1)), per, held)))

RECURSIVE SkipIlLoop(_, _, _)
SkipIlLoop(r, per, held) ==
  IF <<per, r.pos>> \in held THEN [st |-> "diverge", cur |-> r]
  ELSE
  With(held \cup {<<per, r.pos>>}, LAMBDA now :
  With(read_u8(r), LAMBDA major :
     IF major.st # "ok" THEN [st |-> "err", cur |-> major.cur]
     ELSE IF major.val = 255 THEN [st |-> "ok", cur |-> major.cur]
     ELSE With(SeekCurrent(major.cur, Ones(4)), LAMBDA back :
             IF back.st # "ok" THEN back
             ELSE With(skip(back.cur, now), LAMBDA a :
                  With(IF a.st = "ok" /\ per = 2 THEN skip(a.cur, now) ELSE a, LAMBDA b :
                     IF b.st # "ok" THEN b ELSE SkipIlLoop(b.cur, per, now))))))

skip(r, held) ==
  IF <<0, r.pos>> \in held THEN [st |-> "diverge", cur |-> r]
  ELSE
  With(held \cup {<<0, r.pos>>}, LAMBDA now :
  With(read_u8(r), LAMBDA m :
  With(m.val, LAMBDA major :
  With(m.cur, LAMBDA c :
     IF m.st # "ok" THEN [st |-> "err", cur |-> c]
     ELSE IF NoPayload(major) THEN [st |-> "ok", cur |-> c]
     ELSE IF FixedPayload(major) > 0 THEN SeekCurrent(c, U64(FixedPayload(major)))
     ELSE IF InRange(major, 64, 91) THEN SkipPrefixed(c, major - 64)
     ELSE IF InRange(major, 96, 123) THEN SkipPrefixed(c, major - 96)
     ELSE IF InRange(major, 128, 155)
     THEN With(read_len(c, major - 128), LAMBDA len :
             IF len.st # "ok" THEN [st |-> len.st, cur |-> len.cur]
             ELSE SkipLoop(len.cur, len.val, 1, now))
     ELSE IF major = 159 THEN SkipIlLoop(c, 1, now)
     ELSE IF InRange(major, 160, 187)
     THEN With(read_len(c, major - 160), LAMBDA len :
             IF len.st # "ok" THEN [st |-> len.st, cur |-> len.cur]
             ELSE SkipLoop(len.cur, len.val, 2, now))
     ELSE IF major = 191 THEN SkipIlLoop(c, 2, now)
     ELSE IF major = 216
     THEN With(read_u8(c), LAMBDA tag :
             IF tag.st # "ok" THEN [st |-> "err", cur |-> tag.cur] ELSE skip(tag.cur, now))
     ELSE [st |-> "err", cur |-> c]))))

---------------------------------------------------------------------------
(* references: [st, cur, set], set the sequence of links handed to the     *)
(* sink so far; held as in skip                                            *)

RECURSIVE references(_, _, _)

RECURSIVE ReferencesLoop(_, _, _, _, _)
ReferencesLoop(r, set, len, per, held) ==
  IF len = U64(0) THEN [st |-> "ok", cur |-> r, set |-> set]
  ELSE With(references(r, set, held), LAMBDA a :
       With(IF a.st = "ok" /\ per = 2 THEN references(a.cur, a.set, held) ELSE a, LAMBDA b :
          IF b.st # "ok" THEN b
          ELSE ReferencesLoop(b.cur, b.set, WrappingSub(len, U64(1)), per, held)))

RECURSIVE ReferencesIlLoop(_, _, _, _)
ReferencesIlLoop(r, set, per, held) ==
  IF <<per, r.pos>> \in held THEN [st |-> "diverge", cur |-> r, set |-> set]
  ELSE
  With(held \cup {<<per, r.pos>>}, LAMBDA now :
  With(read_u8(r), LAMBDA major :
     IF major.st # "ok" THEN [st |-> "err", cur |-> major.cur, set |-> set]
     ELSE IF major.val = 255 THEN [st |-> "ok", cur |-> major.cur, set |-> set]
     ELSE With(SeekCurrent(major.cur, Ones(4)), LAMBDA back :
             IF back.st # "ok" THEN [st |-> "err", cur |-> back.cur, set |-> set]
             ELSE With(references(back.cur, set, now), LAMBDA a :
                  With(IF a.st = "ok" /\ per = 2 THEN references(a.cur, a.set, now) ELSE a, LAMBDA b :
                     IF b.st # "ok" THEN b ELSE ReferencesIlLoop(b.cur, b.set, per, now))))))

references(r, set, held) ==
  LET Out(x) == [st |-> x.st, cur |-> x.cur, set |-> set]
  IN IF <<0, r.pos>> \in held THEN [st |-> "diverge", cur |-> r, set |-> set]
     ELSE
     With(held \cup {<<0, r.pos>>}, LAMBDA now :
     With(read_u8(r), LAMBDA m :
     With(m.val, LAMBDA major :
     With(m.cur, LAMBDA c :
     IF m.st # "ok" THEN Out(m)
     ELSE IF NoPayload(major) THEN Out(m)
     ELSE IF FixedPayload(major) > 0 THEN Out(SeekCurrent(c, U64(FixedPayload(major))))
     ELSE IF InRange(major, 64, 91) THEN Out(SkipPrefixed(c, major - 64))
     ELSE IF InRange(major, 96, 123) THEN Out(SkipPrefixed(c, major - 96))
     ELSE IF InRange(major, 128, 155)
     THEN With(read_len(c, major - 128), LAMBDA len :
             IF len.st # "ok" THEN Out(len) ELSE ReferencesLoop(len.cur, set, len.val, 1, now))
     ELSE IF major = 159 THEN ReferencesIlLoop(c, set, 1, now)
     ELSE IF InRange(major, 160, 187)
     THEN With(read_len(c, major - 160), LAMBDA len :
             IF len.st # "ok" THEN Out(len) ELSE ReferencesLoop(len.cur, set, len.val, 2, now))
     ELSE IF major = 191 THEN ReferencesIlLoop(c, set, 2, now)
     ELSE IF major = 216
     THEN With(read_u8(c), LAMBDA tag :
             IF tag.st # "ok" THEN Out(tag)
             ELSE IF tag.val = 42
             THEN With(read_link(tag.cur), LAMBDA link :
                     IF link.st # "ok" THEN Out(link)
                     ELSE [st |-> "ok", cur |-> link.cur, set |-> Append(set, link.val)])
             ELSE references(tag.cur, set, now))
     ELSE [st |-> "err", cur |-> c, set |-> set]))))

---------------------------------------------------------------------------
(* Equality of values: the derived PartialEq of Ipld (f64 == on floats) *)

RECURSIVE IpldEq(_, _)
IpldEq(a, b) ==
  IF a.t # b.t THEN FALSE
  ELSE CASE a.t = "Float" -> F64Eq(a.f, b.f)
         [] a.t = "List" ->
              /\ Len(a.l) = Len(b.l)
              /\ \A i \in 1..Len(a.l) : IpldEq(a.l[i], b.l[i])
         [] a.t = "StringMap" ->
              /\ DOMAIN a.m = DOMAIN b.m
              /\ \A k \in DOMAIN a.m : IpldEq(a.m[k], b.m[k])
         [] OTHER -> a = b

\* TRUE when the value is, or holds, a Float NaN
RECURSIVE HasNaN(_)
HasNaN(v) ==
  CASE v.t = "Float" -> F64IsNan(v.f)
    [] v.t = "List" -> \E i \in 1..Len(v.l) : HasNaN(v.l[i])
    [] v.t = "StringMap" -> \E k \in DOMAIN v.m : HasNaN(v.m[k])
    [] OTHER -> FALSE

---------------------------------------------------------------------------
(* The inputs drawn by the model *)

\* u64 magnitudes around every width boundary of the framing
U64Samples ==
  { <<a, b, 0, 0>> : a \in {0, 1, 23, 24, 255, 256, Base - 1}, b \in {0, 1, Base - 1} }
    \cup { <<a, b, c, d>> : a \in {0, Base - 1}, b \in {0, Base - 1},
                            c \in {1, Base - 1}, d \in {0, Base \div 2, Base - 1} }

\* the seven major types the framing writes are used with
Majors == 0..6

\* i128 values: in range, at and beyond both ends of [-2^64, 2^64 - 1]
I128High ==
  { Zeros(4), <<1, 0, 0, 0>>, Ones(4), <<Base - 2, Base - 1, Base - 1, Base - 1>>,
    <<Base - 1, Base - 1, Base - 1, (Base \div 2) - 1>>, <<0, 0, 0, Base \div 2>> }

I128Low ==
  { <<a, b, 0, 0>> : a \in {0, 1, 23, 24, 255, 256, Base - 1}, b \in {0, Base - 1} }
    \cup { <<a, Base - 1, c, Base - 1>> : a \in {0, Base - 1}, c \in {0, Base - 1} }
    \cup { <<0, 0, 1, 0>>, <<0, 0, 0, 1>>, <<0, 0, 0, Base \div 2>> }

I128Samples == { lo \o hi : lo \in I128Low, hi \in I128High }

\* f64 values: zeros, subnormals, the f32 range and its edges, infinities, NaN
F64Samples ==
  { F64(s, e, h, l) : s \in {0, 1},
                      e \in {0, 873, 874, 896, 897, 1023, 1150, 1151, 2047},
                      h \in {0, 1, Pow2(23) - 1},
                      l \in {0, Pow2(28)} }

\* f32 values: zeros, subnormals, normal numbers, infinities, NaNs
F32Samples ==
  { F32(s, e, m) : s \in {0, 1}, e \in {0, 1, 127, 254, 255},
                   m \in {0, 1, Pow2(22), Pow2(23) - 1} }

\* values of a signed type, as i64: the ends of its range, around zero and
\* on both sides of the one-byte header
SignedSamples(ty) ==
  { TypeMin(Bits(ty)), TypeMax(Bits(ty)), WrappingNeg(U64(1)), U64(0), U64(1),
    WrappingNeg(U64(25)), U64(23) }

RECURSIVE SeqsUpTo(_, _)
SeqsUpTo(S, n) ==
  IF n = 0 THEN {<<>>}
  ELSE With(SeqsUpTo(S, n - 1), LAMBDA shorter :
          shorter \cup { Append(s, x) : s \in { t \in shorter : Len(t) = n - 1 }, x \in S })

\* texts: ASCII, one two-byte character, and lengths 23 and 24
TextSamples == SeqsUpTo({97, 98}, MaxStr) \cup {<<195, 169>>, Repeat(97, 23), Repeat(97, 24)}

ByteStringSamples == SeqsUpTo({0, 255}, MaxStr) \cup {Repeat(7, 23), Repeat(7, 24)}

\* content identifiers: version 1 with an identity hash of a short digest,
\* version 1 and version 0 with a sha2-256 digest
Digest32 == [i \in 1..32 |-> i]

CidSamples ==
  { Cid(1, codec, 0, d) : codec \in {85, 113}, d \in SeqsUpTo({171}, MaxDigest) }
    \cup { Cid(1, 113, 18, Digest32), Cid(0, 112, 18, Digest32),
           Cid(1, 85, 0, Repeat(171, 19)), Cid(1, 85, 0, Repeat(171, 20)) }

ScalarValues ==
  {Null, Bool(TRUE), Bool(FALSE)}
    \cup { Integer(i) : i \in I128Samples }
    \cup { Float(f) : f \in F64Samples }
    \cup { String(s) : s \in TextSamples }
    \cup { Bytes(b) : b \in ByteStringSamples }
    \cup { Link(c) : c \in CidSamples }

\* the values put inside containers
ItemValues ==
  { Null, Integer(FromNat(24, 8)), Integer(Ones(8)), Float(F64(0, 1023, Pow2(22), 0)),
    String(<<97>>), Link(Cid(1, 113, 18, Digest32)), List(<<>>) }

MapKeys == {<<>>, <<97>>, <<98>>, <<97, 97>>, Repeat(97, 24)}

MapValues == {Null, Integer(FromNat(1, 8))}

MapSamples ==
  UNION { [D -> MapValues] : D \in { X \in SUBSET MapKeys : Cardinality(X) <= MaxItems } }

IpldValues ==
  ScalarValues
    \cup { List(l) : l \in SeqsUpTo(ItemValues, MaxItems) }
    \cup { StringMap(m) : m \in MapSamples }
    \cup { List(<<Float(F64(0, 2047, 0, 0))>>), List(<<Float(F64(0, 2047, 1, 0))>>),
           List(<<Bytes(<<255>>), StringMap(EmptyMap), Bool(TRUE)>>),
           List(<<List(<<Integer(FromNat(1, 8))>>)>>),
           StringMap([k \in {<<97>>} |-> List(<<String(<<98>>)>>)]),
           StringMap([k \in {<<97>>} |-> Float(F64(0, 2047, 1, 0))]),
           StringMap([k \in {<<97>>} |-> Integer(<<0, 0, 0, 0, 1, 0, 0, 0>>)]),
           List(<<Null, Integer(<<0, 0, 0, 0, 1, 0, 0, 0>>)>>),
           List(<<Link(Cid(1, 85, 0, <<>>))>>),
           StringMap([k \in {<<97>>} |-> Link(Cid(1, 113, 18, Digest32))]) }

\* options: absent, and present with each kind of value, one that does not
\* encode included
OptionSamples ==
  {None} \cup { Some(v) : v \in ItemValues \cup {Bool(TRUE), Integer(<<0, 0, 0, 0, 1, 0, 0, 0>>),
                                                 StringMap([k \in {<<97>>} |-> Null])} }

\* the buffers of the cursors that are positioned and read directly
PlainBuffers == SeqsUpTo({0, 255}, MaxRaw)

\* i64 offsets: small ones of both signs, i64::MIN and i64::MAX
I64Min == <<0, 0, 0, Base \div 2>>

I64Max == <<Base - 1, Base - 1, Base - 1, (Base \div 2) - 1>>

SeekStyles ==
  { [k |-> "Start", n |-> n] : n \in {U64(0), U64(1), U64Max} }
    \cup { [k |-> "End", n |-> n] :
             n \in {U64(0), U64(1), Ones(4), WrappingNeg(U64(3)), I64Min, I64Max} }
    \cup { [k |-> "Current", n |-> n] :
             n \in {U64(1), U64(2), Ones(4), I64Min, I64Max} }

\* every operation of every family
Ops == [family : Families, op : 0..MaxFamilyOp]

\* what from_ipld is given: the values to_ipld makes, and lists with a tag
\* or an operation out of range, of another length, and a non-list
OpIplds ==
  { Op_to_ipld(x) : x \in Ops }
    \cup { List(<<Integer(FromNat(n, 8)), Integer(FromNat(0, 8))>>) : n \in {11, 12} }
    \cup { List(<<Integer(Ones(8)), Integer(FromNat(0, 8))>>),
           List(<<Integer(FromNat(0, 8)), Integer(FromNat(MaxFamilyOp + 1, 8))>>),
           List(<<Integer(FromNat(0, 8))>>), List(<<Null, Integer(FromNat(0, 8))>>),
           Integer(FromNat(0, 8)) }

\* multicodec numbers: raw, dag-pb, dag-cbor, its neighbours and the ends
CodecNumbers == {U64(0), U64(85), U64(112), U64(113), U64(114), U64Max}

\* the slices handed to write
WriteSamples == {<<>>, <<7>>, <<7, 9>>}

\* one-byte prefixes already present in a cursor handed to an encoder
Prefixes == {<<>>, <<255>>}

\* initial bytes and terminators for the raw buffers of length at most MaxRaw
RawAlphabet == {0, 24, 97, 129, 159, 161, 246, 255}

\* what follows each of the 256 initial bytes: nothing, or a payload or a
\* length worth 1 in the width the initial byte announces and then items
Tails(b) ==
  With(b % 32, LAMBDA info :
     {<<>>} \cup
     (CASE info = 24 -> {<<1, 96, 0>>}
        [] info = 25 -> {<<0, 1, 96, 0>>}
        [] info = 26 -> {<<0, 0, 0, 1, 96, 0>>}
        [] info = 27 -> {<<0, 0, 0, 0, 0, 0, 0, 1, 96, 0>>, Repeat(255, 8)}
        [] OTHER -> {<<96, 96, 255>>}))

\* byte strings that are, or are nearly, a binary content identifier
CidBodies ==
  { CidToBytes(Cid(1, 85, 0, <<>>)), CidToBytes(Cid(0, 112, 18, Digest32)),
    <<>>, <<2, 85, 0, 0>>, <<1, 85, 0, 2, 171>>, <<1, 85, 0, 0, 9>> }

LinkBodies == { z \o b : z \in {<<>>, <<0>>, <<1>>}, b \in CidBodies }

\* what can follow tag 42: a type byte, a length byte, a prefix, a body
LinkInputs ==
  UNION { { <<88, n>> \o body : n \in {0, Len(body), Len(body) + 1} \cup ({Len(body) - 1} \cap Nat) }
          : body \in LinkBodies }
    \cup { <<ty, Len(body)>> \o body : ty \in {89, 69}, body \in LinkBodies }

\* integers at the top and in the upper half of each magnitude width
ScalarInputs ==
  { <<24, 255>>, <<25, 255, 255>>, <<26, 255, 255, 255, 255>>,
    <<56, 127>>, <<56, 128>>, <<56, 255>>, <<57, 128, 0>>, <<57, 255, 255>>,
    <<58, 128, 0, 0, 0>>, <<59, 128, 0, 0, 0, 0, 0, 0, 0>> }

\* byte strings whose declared length, read as an i64, is negative: a seek
\* by it moves the position back (by 9, 10, 1 and 9 bytes)
BackwardInputs ==
  { <<159, 91, 255, 255, 255, 255, 255, 255, 255, 247>>,
    <<130, 91, 255, 255, 255, 255, 255, 255, 255, 246>>,
    <<159, 91, 255, 255, 255, 255, 255, 255, 255, 255>>,
    <<130, 91, 255, 255, 255, 255, 255, 255, 255, 247, 0>> }

\* definite-length maps off the canonical form: "b" before "a", "a" twice,
\* and "" twice with a link as the first value
MapInputs ==
  { <<162, 97, 98, 1, 97, 97, 2>>,
    <<162, 97, 97, 1, 97, 97, 2>>,
    <<162, 96, 216, 42, 88, 5, 0, 1, 85, 0, 0, 96, 1>> }

RawInputs ==
  SeqsUpTo(RawAlphabet, MaxRaw)
    \cup UNION { { <<b>> \o t : t \in Tails(b) } : b \in Byte }
    \cup LinkInputs
    \cup { <<216, 42>> \o x : x \in LinkInputs }
    \cup { <<216, 43, 88, 5, 0, 1, 85, 0, 0>>, <<152, 2, 96, 96>> }
    \cup ScalarInputs
    \cup BackwardInputs
    \cup MapInputs

\* well-formed encoded items, canonical or not, for indefinite-length containers
WireItems ==
  { <<1>>, <<24, 1>>, <<246>>, <<97, 97>>, <<128>>, <<159, 255>>, <<159, 1, 255>>,
    <<161, 96, 1>>, <<191, 255>>, <<216, 42, 88, 5, 0, 1, 85, 0, 0>> }

\* well-formed encoded text strings: the keys of a map
WireKeys == {<<96>>, <<97, 97>>, <<120, 1, 97>>}

WireEntries == { k \o v : k \in WireKeys, v \in {<<1>>, <<159, 255>>, <<191, 96, 246, 255>>} }

RECURSIVE Concat(_)
Concat(ss) == IF ss = <<>> THEN <<>> ELSE Head(ss) \o Concat(Tail(ss))

---------------------------------------------------------------------------
(* The state machine.  cur is the ByteCursor in use; op, arg and res are   *)
(* the last operation, its input and its result; pre is the cursor before *)
(* that operation; src records where the bytes of the buffer came from.    *)

NoArg == [none |-> TRUE]

Raw == [kind |-> "raw"]

Init ==
  /\ cur = ByteCursorNew(<<>>)
  /\ op = "init"
  /\ arg = NoArg
  /\ res = [st |-> "ok"]
  /\ pre = ByteCursorNew(<<>>)
  /\ src = Raw

Readable == op \in {"new", "new_il", "set_position"}

Writable ==
  /\ src.kind = "raw"
  /\ cur.inner \in Prefixes
  /\ IsSmall(cur.pos)
  /\ ToNat(cur.pos) <= Len(cur.inner)
  /\ op \in {"init", "new", "set_position"}

\* ByteCursor::new over received bytes; every cursor is built once, from the
\* initial state, and lives independently of the others
NewCursor(b) ==
  /\ op = "init"
  /\ cur' = ByteCursorNew(b)
  /\ op' = "new"
  /\ arg' = NoArg
  /\ res' = [st |-> "ok"]
  /\ pre' = cur'
  /\ src' = Raw

\* ByteCursor::new over an indefinite-length array or map of the items
NewIndefinite(items, isMap) ==
  /\ op = "init"
  /\ cur' = ByteCursorNew(<<IF isMap THEN 191 ELSE 159>> \o Concat(items) \o <<255>>)
  /\ op' = "new_il"
  /\ arg' = NoArg
  /\ res' = [st |-> "ok"]
  /\ pre' = cur'
  /\ src' = [kind |-> "il", isMap |-> isMap, items |-> items]

\* set_position, used to append to a prefix and to rewind what was encoded
SetPosition(p) ==
  /\ \/ op = "encode"
     \/ op = "new" /\ cur.inner \in Prefixes
  /\ p <= Len(cur.inner)
  /\ U64(p) # cur.pos
  /\ cur' = set_position(cur, U64(p))
  /\ op' = "set_position"
  /\ arg' = NoArg
  /\ res' = [st |-> "ok"]
  /\ pre' = cur
  /\ UNCHANGED src

\* Encode::encode(&value, DagCborCodec, &mut cur)
Encode(v) ==
  /\ Writable
  /\ ToNat(cur.pos) = Len(cur.inner)
  /\ LET r == Encode_Ipld(v, cur)
     IN /\ cur' = r.cur
        /\ res' = [st |-> r.st]
        /\ src' = [kind |-> "enc", v |-> v, ok |-> r.st = "ok",
                   start |-> ToNat(cur.pos), end |-> ToNat(r.cur.pos)]
  /\ op' = "encode"
  /\ arg' = v
  /\ pre' = cur

WriteU64(major, value) ==
  /\ Writable
  /\ LET r == write_u64(cur, major, value)
     IN /\ cur' = r.cur
        /\ res' = [st |-> r.st]
  /\ op' = "write_u64"
  /\ arg' = [major |-> major, value |-> value]
  /\ pre' = cur
  /\ src' = Raw

\* Decode::decode(DagCborCodec, &mut cur) for Ipld
Decode ==
  /\ Readable
  /\ LET r == Decode_Ipld(cur)
     IN /\ cur' = r.cur
        /\ res' = [st |-> r.st, val |-> r.val]
  /\ op' = "decode"
  /\ arg' = NoArg
  /\ pre' = cur
  /\ UNCHANGED src

Skip ==
  /\ Readable
  /\ LET r == skip(cur, {})
     IN /\ cur' = r.cur
        /\ res' = [st |-> r.st]
  /\ op' = "skip"
  /\ arg' = NoArg
  /\ pre' = cur
  /\ UNCHANGED src

\* References::references(DagCborCodec, &mut cur, &mut set) into an empty sink
References ==
  /\ Readable
  /\ LET r == references(cur, <<>>, {})
     IN /\ cur' = r.cur
        /\ res' = [st |-> r.st, set |-> r.set]
  /\ op' = "references"
  /\ arg' = NoArg
  /\ pre' = cur
  /\ UNCHANGED src

ReadLink ==
  /\ Readable
  /\ src.kind = "raw"
  /\ LET r == read_link(cur)
     IN /\ cur' = r.cur
        /\ res' = [st |-> r.st, cid |-> r.val]
  /\ op' = "read_link"
  /\ arg' = NoArg
  /\ pre' = cur
  /\ UNCHANGED src

\* Decode::decode(DagCborCodec, &mut cur) for the scalar type ty
DecodeScalar(ty) ==
  /\ Readable
  /\ src.kind = "raw"
  /\ LET r == Decode_scalar(ty, cur)
     IN /\ cur' = r.cur
        /\ res' = [st |-> r.st, val |-> r.val]
  /\ op' = "decode_scalar"
  /\ arg' = [ty |-> ty]
  /\ pre' = cur
  /\ UNCHANGED src

\* Encode::encode(&option, DagCborCodec, &mut cur) for Option<Ipld>
EncodeOption(o) ==
  /\ Writable
  /\ ToNat(cur.pos) = Len(cur.inner)
  /\ LET r == Encode_Option(o, cur)
     IN /\ cur' = r.cur
        /\ res' = [st |-> r.st]
  /\ op' = "encode_option"
  /\ arg' = o
  /\ pre' = cur
  /\ src' = Raw

\* Decode::decode(DagCborCodec, &mut cur) for Option<Ipld>
DecodeOption ==
  /\ Readable
  /\ LET r == Decode_Option(cur)
     IN /\ cur' = r.cur
        /\ res' = [st |-> r.st, val |-> r.val]
  /\ op' = "decode_option"
  /\ arg' = NoArg
  /\ pre' = cur
  /\ UNCHANGED src

\* Encode::encode(&value, DagCborCodec, &mut cur) for f32
EncodeF32(y) ==
  /\ Writable
  /\ ToNat(cur.pos) = Len(cur.inner)
  /\ LET r == Encode_f32(y, cur)
     IN /\ cur' = r.cur
        /\ res' = [st |-> r.st]
  /\ op' = "encode_f32"
  /\ arg' = y
  /\ pre' = cur
  /\ src' = Raw

\* Encode::encode(&x, DagCborCodec, &mut cur) for x of a signed type ty, in
\* a build with or without overflow checks
EncodeSigned(ty, x, checks) ==
  /\ Writable
  /\ cur.inner = <<>>
  /\ LET r == Encode_signed(ty, x, cur, checks)
     IN /\ cur' = r.cur
        /\ res' = [st |-> r.st]
  /\ op' = "encode_signed"
  /\ arg' = [ty |-> ty, x |-> x, checks |-> checks]
  /\ pre' = cur
  /\ src' = Raw

\* the cursors the positioning and reading operations are run on
Plain == src.kind = "raw" /\ cur.inner \in PlainBuffers

\* ByteCursor::seek, at most MaxSeeks times on a cursor
Seek(style) ==
  /\ Plain
  /\ \/ op = "new"
     \/ op = "seek" /\ arg.nth < MaxSeeks
  /\ LET r == seek(cur, style)
     IN /\ cur' = r.cur
        /\ res' = [st |-> r.st, n |-> r.cur.pos]
  /\ op' = "seek"
  /\ arg' = [style |-> style, nth |-> IF op = "seek" THEN arg.nth + 1 ELSE 1]
  /\ pre' = cur
  /\ UNCHANGED src

\* ByteCursor::read into a destination of n bytes
Read(n) ==
  /\ Plain
  /\ op \in {"new", "seek"}
  /\ LET r == read(cur, n)
     IN /\ cur' = r.cur
        /\ res' = [st |-> "ok", amt |-> r.amt, buf |-> r.buf]
  /\ op' = "read"
  /\ arg' = [n |-> n]
  /\ pre' = cur
  /\ UNCHANGED src

\* ByteCursor::read_exact into a destination of n bytes
ReadExact(n) ==
  /\ Plain
  /\ op \in {"new", "seek"}
  /\ LET r == read_exact(cur, n)
     IN /\ cur' = r.cur
        /\ res' = [st |-> r.st, buf |-> r.buf]
  /\ op' = "read_exact"
  /\ arg' = [n |-> n]
  /\ pre' = cur
  /\ UNCHANGED src

\* ByteCursor::write of the slice buf, at a position the buffer can be
\* extended to or one beyond isize::MAX
Write(buf) ==
  /\ Plain
  /\ op \in {"new", "seek"}
  /\ IsSmall(cur.pos) \/ ULt(IsizeMax, cur.pos)
  /\ LET r == write(cur, buf)
     IN /\ cur' = r.cur
        /\ res' = [st |-> r.st, n |-> r.n]
  /\ op' = "write"
  /\ arg' = [buf |-> buf]
  /\ pre' = cur
  /\ UNCHANGED src

\* u64::from(DagCborCodec)
IntoU64 ==
  /\ op = "init"
  /\ op' = "into_u64"
  /\ arg' = NoArg
  /\ res' = [st |-> "ok", n |-> DagCborCodecInto]
  /\ UNCHANGED <<cur, pre, src>>

\* DagCborCodec::try_from(n)
TryFromU64(n) ==
  /\ op = "init"
  /\ op' = "try_from"
  /\ arg' = [n |-> n]
  /\ res' = DagCborCodecTryFrom(n)
  /\ UNCHANGED <<cur, pre, src>>

\* Op::to_ipld
ToIpld(x) ==
  /\ op = "init"
  /\ op' = "to_ipld"
  /\ arg' = x
  /\ res' = [st |-> "ok", val |-> Op_to_ipld(x)]
  /\ UNCHANGED <<cur, pre, src>>

\* Op::from_ipld, on what to_ipld returned or on another value
FromIpld(ipld) ==
  /\ \/ op = "to_ipld" /\ ipld = res.val
     \/ op = "init"
  /\ op' = "from_ipld"
  /\ arg' = [ipld |-> ipld, of |-> IF op = "to_ipld" THEN <<arg>> ELSE <<>>]
  /\ res' = Op_from_ipld(ipld)
  /\ UNCHANGED <<cur, pre, src>>

\* Codec::encode: a new cursor, the value encoded into it, and the cursor
\* returned as it was left (Err returns no cursor)
CodecEncode(v) ==
  /\ op = "init"
  /\ LET r == Encode_Ipld(v, ByteCursorNew(<<>>))
     IN /\ cur' = r.cur
        /\ res' = [st |-> r.st]
        /\ src' = [kind |-> "enc", v |-> v, ok |-> r.st = "ok",
                   start |-> 0, end |-> ToNat(r.cur.pos)]
  /\ op' = "codec_encode"
  /\ arg' = v
  /\ pre' = ByteCursorNew(<<>>)

\* Codec::decode for Ipld: the typed decoder run on the cursor it is given,
\* here the one Codec::encode returned or one whose position was set
CodecDecode ==
  /\ \/ op = "codec_encode" /\ res.st = "ok"
     \/ op = "set_position"
  /\ LET r == Decode_Ipld(cur)
     IN /\ cur' = r.cur
        /\ res' = [st |-> r.st, val |-> r.val]
  /\ op' = "codec_decode"
  /\ arg' = NoArg
  /\ pre' = cur
  /\ UNCHANGED src

\* set_position reaches the first MaxPos + 1 offsets
MaxPos == 1

Next ==
  \/ \E b \in RawInputs : NewCursor(b)
  \/ \E items \in SeqsUpTo(WireItems, MaxItems) : NewIndefinite(items, FALSE)
  \/ \E items \in SeqsUpTo(WireEntries, MaxItems) : NewIndefinite(items, TRUE)
  \/ \E p \in 0..MaxPos : SetPosition(p)
  \/ \E v \in IpldValues : Encode(v)
  \/ \E major \in Majors, value \in U64Samples : WriteU64(major, value)
  \/ Decode
  \/ Skip
  \/ References
  \/ ReadLink
  \/ \E v \in IpldValues : CodecEncode(v)
  \/ CodecDecode
  \/ \E ty \in TypedScalars : DecodeScalar(ty)
  \/ \E o \in OptionSamples : EncodeOption(o)
  \/ DecodeOption
  \/ \E y \in F32Samples : EncodeF32(y)
  \/ \E style \in SeekStyles : Seek(style)
  \/ \E n \in 0..MaxRead : Read(n)
  \/ \E n \in 0..MaxRead : ReadExact(n)
  \/ \E ty \in { t \in TypedScalars : Signed(t) } :
       \E x \in SignedSamples(ty), checks \in BOOLEAN : EncodeSigned(ty, x, checks)
  \/ \E buf \in WriteSamples : Write(buf)
  \/ IntoU64
  \/ \E n \in CodecNumbers : TryFromU64(n)
  \/ \E x \in Ops : ToIpld(x)
  \/ \E ipld \in OpIplds : FromIpld(ipld)

Spec == Init /\ [][Next]_vars

---------------------------------------------------------------------------
(* Properties.  Each is stated over the last operation: op names it, arg   *)
(* is its input, pre the cursor it started from, cur the cursor it left,  *)
(* res its result.                                                         *)

\* the unread bytes of a cursor
Rest(c) == SubSeq(c.inner, FillAmt(c) + 1, Len(c.inner))

\* the bytes between the positions of two cursors, in the later buffer
Written(c0, c1) == SubSeq(c1.inner, ToNat(c0.pos) + 1, ToNat(c1.pos))

\* TRUE when c1 is c0 after exactly the bytes b were written at its position
Wrote(c0, c1, b) ==
  /\ IsSmall(c1.pos)
  /\ ToNat(c1.pos) = ToNat(c0.pos) + Len(b)
  /\ Written(c0, c1) = b
  /\ SubSeq(c1.inner, 1, ToNat(c0.pos)) = SubSeq(c0.inner, 1, ToNat(c0.pos))
  /\ Len(c1.inner) = IF Len(c0.inner) > ToNat(c1.pos) THEN Len(c0.inner) ELSE ToNat(c1.pos)

\* the big-endian bytes of limbs given most significant first
LimbBytes(ls) == Concat([i \in 1..Len(ls) |-> <<ls[i] \div 256, ls[i] % 256>>])

\* the shortest CBOR header of major type M for the u64 v (RFC 8949, 3)
Header(M, v) ==
  IF IsSmall(v) /\ v[1] <= 23 THEN <<M * 32 + v[1]>>
  ELSE IF IsSmall(v) /\ v[1] <= 255 THEN <<M * 32 + 24, v[1]>>
  ELSE IF IsSmall(v) THEN <<M * 32 + 25>> \o LimbBytes(<<v[1]>>)
  ELSE IF v[3] = 0 /\ v[4] = 0 THEN <<M * 32 + 26>> \o LimbBytes(<<v[2], v[1]>>)
  ELSE <<M * 32 + 27>> \o LimbBytes(<<v[4], v[3], v[2], v[1]>>)

\* C3: write_u64(w, M, v) succeeds for every major type M in 0..6 and every
\* u64 v, and writes at the position exactly the shortest header of v: one
\* byte up to 23, then 1, 2, 4 or 8 big-endian bytes after M*32 + 24..27.
ShortestForm ==
  op = "write_u64" =>
    /\ res.st = "ok"
    /\ Wrote(pre, cur, Header(arg.major, arg.value))

\* a value of 65536 written in the four-byte form
ShortestFormWitness ==
  /\ op = "write_u64"
  /\ arg.value = <<0, 1, 0, 0>>
  /\ Written(pre, cur) = <<arg.major * 32 + 26, 0, 1, 0, 0>>

\* the encoding of a text key: the header of its length and its bytes
KeyEncoding(k) == Header(3, U64(Len(k))) \o k

\* the keys in ascending byte order of their encodings
RECURSIVE KeysByEncoding(_)
KeysByEncoding(K) ==
  IF K = {} THEN <<>>
  ELSE LET k == CHOOSE x \in K : \A y \in K \ {x} : BytesLt(KeyEncoding(x), KeyEncoding(y))
       IN <<k>> \o KeysByEncoding(K \ {k})

\* the encoding of a value on its own
ValueEncoding(v) == Encode_Ipld(v, ByteCursorNew(<<>>)).cur.inner

\* C4: a StringMap that encodes is written as the definite-length map header
\* of its number of entries, then its entries in ascending byte order of the
\* encoded keys (a shorter key first), each key followed by its value.
MapOrder ==
  (op = "encode" /\ arg.t = "StringMap" /\ res.st = "ok") =>
    LET keys == KeysByEncoding(DOMAIN arg.m)
    IN Wrote(pre, cur,
             Header(5, U64(Cardinality(DOMAIN arg.m)))
               \o Concat([i \in 1..Len(keys) |->
                            KeyEncoding(keys[i]) \o ValueEncoding(arg.m[keys[i]])]))

\* the map {"aa", "b"}: "b" is written first
MapOrderWitness ==
  /\ op = "encode"
  /\ arg.t = "StringMap"
  /\ DOMAIN arg.m = {<<97, 97>>, <<98>>}
  /\ res.st = "ok"
  /\ SubSeq(Written(pre, cur), 1, 3) = <<162, 97, 98>>

\* -2^64 <= i <= 2^64 - 1 for a two's complement i128 i
InIntegerRange(i) == (\A k \in 5..8 : i[k] = 0) \/ (\A k \in 5..8 : i[k] = Base - 1)

\* major type 0 and i, or major type 1 and -(i + 1) = NOT i
IntegerHeader(i) ==
  IF i[8] < Base \div 2
  THEN Header(0, SubSeq(i, 1, 4))
  ELSE Header(1, [k \in 1..4 |-> Base - 1 - i[k]])

\* 2^64, the least integer that does not encode
TwoTo64 == <<0, 0, 0, 0, 1, 0, 0, 0>>

\* C5: Integer(n) encodes exactly when -2^64 <= n <= 2^64 - 1, as major type 0
\* with magnitude n or major type 1 with magnitude -(n + 1); outside that
\* range the encoder fails and writes no byte for the integer, also when the
\* integer is the second item of a list.
IntegerRange ==
  /\ (op = "encode" /\ arg.t = "Integer") =>
       IF InIntegerRange(arg.i)
       THEN res.st = "ok" /\ Wrote(pre, cur, IntegerHeader(arg.i))
       ELSE res.st = "err" /\ cur = pre
  /\ (op = "encode" /\ arg = List(<<Null, Integer(TwoTo64)>>)) =>
       res.st = "err" /\ Wrote(pre, cur, <<130, 246>>)

\* 2^64 is refused and the cursor is as before
IntegerRangeWitness ==
  /\ op = "encode"
  /\ arg = Integer(TwoTo64)
  /\ res.st = "err"
  /\ cur = pre

\* what read_link is to accept: 0x58, a non-zero length, that many bytes,
\* a zero byte first and a content identifier in the rest
LinkAccepted(b) ==
  /\ Len(b) >= 2
  /\ b[1] = 88
  /\ b[2] # 0
  /\ Len(b) >= 2 + b[2]
  /\ b[3] = 0
  /\ CidTryFrom(SubSeq(b, 4, 2 + b[2])).ok

\* C7: read_link returns a content identifier only when the bytes at the
\* cursor are 0x58, a non-zero length, that many payload bytes, the first of
\* them 0x00 and the others a valid content identifier; it returns an error
\* in every other case.
LinkValidation ==
  op = "read_link" =>
    /\ res.st = "ok" =>
         /\ LinkAccepted(Rest(pre))
         /\ res.cid = CidTryFrom(SubSeq(Rest(pre), 4, 2 + Rest(pre)[2])).cid
    /\ ~LinkAccepted(Rest(pre)) => res.st = "err"

\* a link is returned
LinkValidationWitness ==
  /\ op = "read_link"
  /\ res.st = "ok"
  /\ res.cid = Cid(1, 85, 0, <<>>)
  /\ Rest(pre)[2] = 5

\* the variant the table gives for a first byte b followed by b2
TableVariant(b, b2) ==
  IF b \in 0..27 \/ b \in 32..59 THEN "Integer"
  ELSE IF b \in 64..91 THEN "Bytes"
  ELSE IF b \in 96..123 THEN "String"
  ELSE IF b \in 128..155 \/ b = 159 THEN "List"
  ELSE IF b \in 160..187 \/ b = 191 THEN "StringMap"
  ELSE IF b = 216 /\ b2 = 42 THEN "Link"
  ELSE IF b \in {244, 245} THEN "Bool"
  ELSE IF b \in {246, 247} THEN "Null"
  ELSE IF b \in {250, 251} THEN "Float"
  ELSE "none"

\* C8: the decoder picks the variant from the first byte (and the tag after
\* 0xd8): a decoded value has the variant of the table, integers of
\* 0x00..0x1b are non-negative and those of 0x20..0x3b are -1 - magnitude,
\* 0xf4 and 0xf5 are false and true, and every byte outside the table, and
\* 0xd8 with another tag, is an error.
DispatchTable ==
  (op = "decode" /\ Rest(pre) # <<>>) =>
    LET b == Rest(pre)[1]
        b2 == IF Len(Rest(pre)) >= 2 THEN Rest(pre)[2] ELSE 0
    IN /\ res.st = "ok" => res.val.t = TableVariant(b, b2)
       /\ TableVariant(b, b2) = "none" => res.st = "err"
       /\ (res.st = "ok" /\ b \in 0..27) => ~IsNeg(res.val.i)
       /\ (res.st = "ok" /\ b \in 0..23) => res.val.i = FromNat(b, 8)
       /\ (res.st = "ok" /\ b \in 32..59) => IsNeg(res.val.i)
       /\ (res.st = "ok" /\ b \in 32..55) =>
            WrappingAdd(res.val.i, FromNat(b - 32 + 1, 8)) = Zeros(8)
       /\ (res.st = "ok" /\ b = 244) => res.val = Bool(FALSE)
       /\ (res.st = "ok" /\ b = 245) => res.val = Bool(TRUE)

\* tag 43 is refused
DispatchTableWitness ==
  /\ op = "decode"
  /\ Len(Rest(pre)) >= 2
  /\ Rest(pre)[1] = 216
  /\ Rest(pre)[2] = 43
  /\ res.st = "err"

\* the definite-length container of the items of the buffer
DefiniteForm == <<(IF src.isMap THEN 160 ELSE 128) + Len(src.items)>> \o Concat(src.items)

\* C9: an indefinite-length array or map of well-formed items decodes to the
\* value the definite-length container of the same items decodes to, and
\* the cursor ends after the 0xff terminator.
IndefiniteEqualsDefinite ==
  (op = "decode" /\ src.kind = "il") =>
    With(Decode_Ipld(ByteCursorNew(DefiniteForm)), LAMBDA d :
      /\ d.st = "ok"
      /\ res.st = "ok"
      /\ res.val = d.val
      /\ res.val.t = (IF src.isMap THEN "StringMap" ELSE "List")
      /\ cur.pos = U64(Len(cur.inner)))

\* an indefinite-length array of two items is decoded
IndefiniteEqualsDefiniteWitness ==
  /\ op = "decode"
  /\ src.kind = "il"
  /\ ~src.isMap
  /\ Len(src.items) = 2
  /\ res.st = "ok"
  /\ Len(res.val.l) = 2

\* C10: skip started on an output of the encoder, or on bytes the decoder
\* accepts, succeeds and leaves the cursor at the end of the value, where
\* the decoder leaves it.
SkipEqualsLength ==
  op = "skip" =>
    /\ (src.kind = "enc" /\ src.ok /\ pre.pos = U64(src.start)) =>
         res.st = "ok" /\ cur.pos = U64(src.end)
    /\ With(Decode_Ipld(pre), LAMBDA d :
         d.st = "ok" => res.st = "ok" /\ cur.pos = d.cur.pos)

\* an encoded list of two items is skipped
SkipEqualsLengthWitness ==
  /\ op = "skip"
  /\ src.kind = "enc"
  /\ src.ok
  /\ src.v.t = "List"
  /\ Len(src.v.l) = 2
  /\ pre.pos = U64(src.start)
  /\ res.st = "ok"
  /\ cur.pos = U64(src.end)

\* C1: a value without a Float NaN that encodes is decoded, from the
\* position where it was written, to a value equal to it.
RoundTrip ==
  (op = "decode" /\ src.kind = "enc" /\ src.ok /\ pre.pos = U64(src.start) /\ ~HasNaN(src.v)) =>
    res.st = "ok" /\ IpldEq(res.val, src.v)

\* C6: Link(cid) is written as d8 2a 58, the byte len + 1, 00 and the len
\* bytes of cid, and references over these bytes hands exactly cid to the
\* sink.
LinkWireForm ==
  /\ (op = "encode" /\ arg.t = "Link") =>
       /\ res.st = "ok"
       /\ Wrote(pre, cur, <<216, 42, 88, Len(CidToBytes(arg.cid)) + 1, 0>> \o CidToBytes(arg.cid))
  /\ (op = "references" /\ src.kind = "enc" /\ src.v.t = "Link" /\ pre.pos = U64(src.start)) =>
       res.st = "ok" /\ res.set = <<src.v.cid>>


\* the content identifiers of the Link nodes of a value, through lists and
\* map values
RECURSIVE LinksOf(_)
LinksOf(v) ==
  CASE v.t = "Link" -> <<v.cid>>
    [] v.t = "List" -> Concat([i \in 1..Len(v.l) |-> LinksOf(v.l[i])])
    [] v.t = "StringMap" ->
         LET keys == KeysByEncoding(DOMAIN v.m)
         IN Concat([i \in 1..Len(keys) |-> LinksOf(v.m[keys[i]])])
    [] OTHER -> <<>>

\* how many times x occurs in the sequence s
Count(s, x) == Cardinality({ i \in 1..Len(s) : s[i] = x })

\* TRUE when two sequences hold the same elements the same number of times
SameMultiset(a, b) ==
  /\ Len(a) = Len(b)
  /\ \A i \in 1..Len(a) : Count(a, a[i]) = Count(b, a[i])

\* C11: references run over the encoding of a value that encodes succeeds
\* and hands to the sink exactly the multiset of the content identifiers of
\* the Link nodes of the value.
ReferencesSound ==
  (op = "references" /\ src.kind = "enc" /\ src.ok /\ pre.pos = U64(src.start)) =>
    res.st = "ok" /\ SameMultiset(res.set, LinksOf(src.v))

\* C12: Codec::decode returns what the typed decoder returns from offset 0
\* of the bytes of the cursor it is given, whatever the position of that
\* cursor; on the cursor Codec::encode returned for v it returns v.
FacadeDecodesFromStart ==
  op = "codec_decode" =>
    With(Decode_Ipld(ByteCursorNew(pre.inner)), LAMBDA d :
      /\ res.st = d.st
      /\ d.st = "ok" => res.val = d.val)

\* C13: decode, references and skip end with a value or an error on every
\* buffer and from every position: none of them panics, indexes out of
\* bounds or fails to allocate.
NoPanic ==
  op \in {"decode", "references", "skip"} => res.st \in {"ok", "err"}

\* the initial bytes a typed scalar is to accept
AcceptedInitial(ty) ==
  LET widest == CASE Bits(ty) = 8 -> 24 [] Bits(ty) = 16 -> 25 [] Bits(ty) = 32 -> 26 [] OTHER -> 27
  IN IF Signed(ty) THEN 32..(32 + widest) ELSE 0..widest

\* the integer that the bytes b encode (initial byte below 0x40, payload
\* complete), as a two's complement i128
EncodedNumber(b) ==
  LET info == b[1] % 32
      n == CASE info = 24 -> 1 [] info = 25 -> 2 [] info = 26 -> 4 [] info = 27 -> 8 [] OTHER -> 0
      m == IF info <= 23 THEN FromNat(info, 8)
           ELSE IF info = 24 THEN FromNat(b[2], 8)
           ELSE ZeroExtend(BigEndianRead(SubSeq(b, 2, 1 + n)), 8)
  IN IF b[1] < 32 THEN m ELSE LimbNot(m)

\* C14: a typed scalar decoder returns an error for every initial byte
\* outside the range of its width, and a value it returns is the encoded
\* number.
TypedScalarDecoding ==
  (op = "decode_scalar" /\ Rest(pre) # <<>>) =>
    /\ Rest(pre)[1] \notin AcceptedInitial(arg.ty) => res.st = "err"
    /\ res.st = "ok" =>
         (IF Signed(arg.ty) THEN SignExtend(res.val, 8) ELSE ZeroExtend(res.val, 8))
           = EncodedNumber(Rest(pre))

\* C15: an absent option is written as the byte 0xf6 and a present one as
\* its inner value is written; the decoder consumes a first byte 0xf6 or
\* 0xf7 and gives absent, and on any other first byte gives what the inner
\* decoder gives from the position where it started, as present.
OptionCoding ==
  /\ op = "encode_option" =>
       IF arg.some
       THEN With(Encode_Ipld(arg.val, pre), LAMBDA e : res.st = e.st /\ cur = e.cur)
       ELSE res.st = "ok" /\ Wrote(pre, cur, <<246>>)
  /\ (op = "decode_option" /\ Rest(pre) # <<>>) =>
       IF Rest(pre)[1] \in {246, 247}
       THEN /\ res = [st |-> "ok", val |-> None]
            /\ cur = [pre EXCEPT !.pos = WrappingAdd(pre.pos, U64(1))]
       ELSE With(Decode_Ipld(pre), LAMBDA d :
              /\ res.st = d.st
              /\ cur = d.cur
              /\ d.st = "ok" => res.val = Some(d.val))

\* the one-byte-payload integer 1 is decoded as present
OptionCodingWitness ==
  /\ op = "decode_option"
  /\ Rest(pre) # <<>>
  /\ Rest(pre)[1] = 24
  /\ res.st = "ok"
  /\ res.val = Some(Integer(FromNat(1, 8)))

FitsF32(f) ==
  \/ f.exp = 0 /\ f.hi = 0 /\ f.lo = 0
  \/ f.exp >= 897 /\ f.exp <= 1150 /\ f.lo = 0
  \/ f.exp >= 874 /\ f.exp <= 896 /\ f.lo = 0 /\ f.hi % Pow2(897 - f.exp) = 0

\* C17: a finite f64 that is a single-precision number is written as 0xfa
\* and the four big-endian bytes of that f32, every other finite f64 as
\* 0xfb and its eight big-endian bytes; and two floats that compare equal
\* are written as the same bytes.
FloatCanonical ==
  (op = "encode" /\ arg.t = "Float" /\ F64IsFinite(arg.f)) =>
    /\ res.st = "ok"
    /\ IF FitsF32(arg.f)
       THEN /\ Len(Written(pre, cur)) = 5
            /\ Written(pre, cur)[1] = 250
            /\ F32ToF64(F32FromBytes(SubSeq(Written(pre, cur), 2, 5))) = arg.f
       ELSE Written(pre, cur) = <<251>> \o F64Bytes(arg.f)
    /\ \A g \in F64Samples :
         F64Eq(g, arg.f) => ValueEncoding(Float(g)) = Written(pre, cur)

\* how many bytes lie between the position and the end of the buffer: none
\* when the position is at or beyond the end
Available(c) == IF ULt(c.pos, U64(Len(c.inner))) THEN Len(c.inner) - ToNat(c.pos) ELSE 0

\* the k bytes of the buffer at the position
BytesAt(c, k) == IF k = 0 THEN <<>> ELSE SubSeq(c.inner, ToNat(c.pos) + 1, ToNat(c.pos) + k)

\* C18: read into n bytes copies the first min(n, remaining) bytes at the
\* position, returns that count and advances the position by it, without
\* failing and without changing the buffer; at or beyond the end it
\* returns 0 and leaves the position.
ReadCopies ==
  op = "read" =>
    LET k == MinNat(arg.n, Available(pre))
        sum == LimbAdd(pre.pos, U64(k), 0)
    IN /\ res.st = "ok"
       /\ res.amt = k
       /\ res.buf = BytesAt(pre, k)
       /\ sum.carry = 0
       /\ cur.pos = sum.val
       /\ cur.inner = pre.inner
       /\ Available(pre) = 0 => res.amt = 0 /\ cur.pos = pre.pos

\* three bytes asked with one left: one byte copied
ReadCopiesWitness ==
  /\ op = "read"
  /\ arg.n = 3
  /\ pre = [inner |-> <<0, 255>>, pos |-> U64(1)]
  /\ res.amt = 1
  /\ res.buf = <<255>>
  /\ cur.pos = U64(2)

\* C19: read_exact into n bytes fails exactly when fewer than n bytes
\* remain, leaving the cursor as it was; otherwise it returns the n bytes at
\* the position and advances the position by n.
ReadExactAllOrNothing ==
  op = "read_exact" =>
    IF arg.n > Available(pre)
    THEN res.st = "err" /\ cur = pre
    ELSE LET sum == LimbAdd(pre.pos, U64(arg.n), 0)
         IN /\ res.st = "ok"
            /\ res.buf = BytesAt(pre, arg.n)
            /\ sum.carry = 0
            /\ cur.pos = sum.val
            /\ cur.inner = pre.inner

\* two bytes asked with one left: an error and the cursor unchanged
ReadExactAllOrNothingWitness ==
  /\ op = "read_exact"
  /\ arg.n = 2
  /\ pre = [inner |-> <<0, 255>>, pos |-> U64(1)]
  /\ res.st = "err"
  /\ cur = pre

\* the position a seek asks for, as a two's complement i128
SeekTarget(c, style) ==
  IF style.k = "Start" THEN ZeroExtend(style.n, 8)
  ELSE WrappingAdd(ZeroExtend(IF style.k = "End" THEN U64(Len(c.inner)) ELSE c.pos, 8),
                   SignExtend(style.n, 8))

\* C20: seek sets the position to n for Start(n), to length + k for End(k)
\* and to position + k for Current(k), for every i64 k; it fails exactly
\* when that number is negative or above 2^64 - 1, leaving the position;
\* positions beyond the end are accepted and the buffer never changes.
SeekArithmetic ==
  op = "seek" =>
    LET target == SeekTarget(pre, arg.style)
    IN /\ cur.inner = pre.inner
       /\ IF \A i \in 5..8 : target[i] = 0
          THEN res.st = "ok" /\ cur.pos = SubSeq(target, 1, 4) /\ res.n = cur.pos
          ELSE res.st = "err" /\ cur.pos = pre.pos

\* Current(i64::MIN) from 2^64 - 1 arrives at 2^63 - 1
SeekArithmeticWitness ==
  /\ op = "seek"
  /\ arg.style = [k |-> "Current", n |-> I64Min]
  /\ pre.pos = U64Max
  /\ res.st = "ok"
  /\ cur.pos = I64Max

\* C21: write of a slice of n bytes at position p of a buffer of length len
\* returns n and leaves a buffer of length max(len, p + n) that holds the
\* slice at [p, p + n), zeros at [len, p) and the old bytes elsewhere, with
\* the position at p + n; reads, seeks and writes never shorten the buffer.
WriteExtends ==
  /\ op = "write" =>
       LET n == Len(arg.buf)
           len == Len(pre.inner)
       IN /\ res.st = "ok"
          /\ res.n = n
          /\ IsSmall(pre.pos)
          /\ cur.pos = U64(ToNat(pre.pos) + n)
          /\ Len(cur.inner) = (IF len > ToNat(pre.pos) + n THEN len ELSE ToNat(pre.pos) + n)
          /\ \A i \in 1..Len(cur.inner) :
               cur.inner[i] = (IF i > ToNat(pre.pos) /\ i <= ToNat(pre.pos) + n
                               THEN arg.buf[i - ToNat(pre.pos)]
                               ELSE IF i <= len THEN pre.inner[i] ELSE 0)
  /\ op \in {"read", "read_exact", "seek", "write"} => Len(cur.inner) >= Len(pre.inner)

\* C22: the number of the codec token is 0x71, and a number converts to
\* the token exactly when it is 0x71.
CodecIdentifier ==
  /\ op = "into_u64" => res.n = U64(113)
  /\ op = "try_from" => (res.st = "ok" <=> arg.n = U64(113))

\* C23: from_ipld of what to_ipld made of an Op returns that Op; to_ipld
\* writes a tag in 0..11 that no other family gets, and from_ipld reads a
\* tag back as the family it was written for.
OpRoundTrip ==
  /\ (op = "from_ipld" /\ arg.of # <<>>) => res.st = "ok" /\ res.val = arg.of[1]
  /\ op = "to_ipld" =>
       /\ res.val.l[1] \in { Integer(FromNat(n, 8)) : n \in 0..11 }
       /\ \A y \in Ops : y.family # arg.family => Op_to_ipld(y).l[1] # res.val.l[1]
  /\ (op = "from_ipld" /\ res.st = "ok") =>
       arg.ipld.l[1] = Integer(FromNat(TagOf(res.val.family), 8))

\* the last family, I8, comes back from tag 11
OpRoundTripWitness ==
  /\ op = "from_ipld"
  /\ arg.of # <<>>
  /\ arg.ipld.l[1] = Integer(FromNat(11, 8))
  /\ res.st = "ok"
  /\ res.val = [family |-> "I8", op |-> 1]

\* C24: Ipld decode, references and skip return, with a value or an error,
\* for every byte string and every start position: none of them comes back
\* to a traversal it is still in.
Terminates ==
  op \in {"decode", "skip", "references"} => res.st # "diverge"

\* C25: when skip reports success the position is at most the length of the
\* buffer: a value whose payload or declared length runs beyond the end of
\* the buffer is an error.
SkipStaysInBuffer ==
  (op = "skip" /\ res.st = "ok") =>
     IsSmall(cur.pos) /\ ToNat(cur.pos) <= Len(cur.inner)

\* C26: skip and references are one traversal: from the same bytes and the
\* same start position either both fail or both succeed, and when they
\* succeed they end at the same position.
SkipIsReferences ==
  /\ op = "skip" =>
       LET r == references(pre, <<>>, {})
       IN /\ (res.st = "ok") <=> (r.st = "ok")
          /\ res.st = "ok" => r.cur = cur
  /\ op = "references" =>
       LET s == skip(pre, {})
       IN /\ (res.st = "ok") <=> (s.st = "ok")
          /\ res.st = "ok" => s.cur = cur

\* C27: on every input that Ipld decode accepts, references from the same
\* position succeeds and hands to the sink exactly the multiset of the
\* content identifiers of the Link nodes of the decoded value.
ReferencesAgreesWithDecode ==
  (op = "decode" /\ res.st = "ok") =>
     LET r == references(pre, <<>>, {})
     IN r.st = "ok" /\ SameMultiset(r.set, LinksOf(res.val))

\* the key and the value of the i-th entry on the wire
WireEntry(i) == ReadEntry(ByteCursorNew(src.items[i]))

\* the keys on the wire, and the last entry that carries the key k
WireKeySet == { WireEntry(i).key : i \in 1..Len(src.items) }

LastOccurrence(k) ==
  CHOOSE i \in 1..Len(src.items) :
    /\ WireEntry(i).key = k
    /\ \A j \in (i + 1)..Len(src.items) : WireEntry(j).key # k

\* TRUE when d is the successful decoding of the entries into a StringMap of
\* one entry per distinct key, holding the value of its last occurrence
LastValueWins(d) ==
  /\ d.st = "ok"
  /\ d.val.t = "StringMap"
  /\ DOMAIN d.val.m = WireKeySet
  /\ \A k \in WireKeySet : d.val.m[k] = WireEntry(LastOccurrence(k)).val
  /\ Cardinality(DOMAIN d.val.m) <= Len(src.items)

\* C28: a map, definite or indefinite, decodes whatever the order of its
\* keys and whether or not a key is repeated; the StringMap has one entry
\* per distinct key with the value of the last occurrence of the key.
MapLastValueWins ==
  (op = "decode" /\ src.kind = "il" /\ src.isMap /\ pre.pos = U64(0)) =>
     /\ LastValueWins(res)
     /\ LastValueWins(Decode_Ipld(ByteCursorNew(DefiniteForm)))

\* a map of two entries with the key "a", in two encodings of the key and
\* with two values, is decoded to a map of one entry
MapLastValueWinsWitness ==
  /\ op = "decode" /\ src.kind = "il" /\ src.isMap /\ pre.pos = U64(0)
  /\ Len(src.items) = 2
  /\ WireEntry(1).key = WireEntry(2).key
  /\ WireEntry(1).val # WireEntry(2).val
  /\ src.items[1][1] # src.items[2][1]
  /\ res.st = "ok"
  /\ Cardinality(DOMAIN res.val.m) = 1
  /\ res.val.m[WireEntry(2).key] = WireEntry(2).val

\* C29: the encoder of a signed type completes and writes the bytes that
\* encoding Ipld::Integer of the same number writes: major type 0 with the
\* number itself from zero upwards, major type 1 with -(x + 1) below zero.
SignedEncodesLikeInteger ==
  op = "encode_signed" =>
     LET e == Encode_i128(SignExtend(arg.x, 8), pre)
     IN /\ res.st = "ok"
        /\ e.st = "ok"
        /\ cur = e.cur
=============================================================================
